---- MODULE Spec2Model ----
(***************************************************************************)
(* Generalized tic-tac-toe: the game engine (TicTacToeGame) and the game   *)
(* runner (GameRunner.play_game) of Kele98-star/TicTacToe.                 *)
(*                                                                         *)
(* Cells hold -1 (player 1), 0 (empty) or 1 (player 2).  Python's None is  *)
(* the integer None below, outside the range of every value it is compared *)
(* with.  make_move is an action (what the call does to the game) and an   *)
(* operator make_move_ret (the Boolean the call returns, which the code     *)
(* decides from the state it is called in).  The search of MinimaxPlayer   *)
(* is a family of operators computed as the code computes them.            *)
(***************************************************************************)
EXTENDS Integers, Sequences, FiniteSets, TLC

\* Board sizes explored are 1 .. DefaultSize, the runner's default board.
DefaultSize == 3
\* win_length arguments explored are 0 (not given) and 1 .. MaxWin.
MaxWin == 3
\* make_move arguments reach Pad cells beyond each edge of the board.
Pad == 1
\* play_game's timeout argument is 0 (None: no limit) or 1 .. MaxTimeout seconds.
MaxTimeout == 1
\* A get_move call takes 0 .. MaxElapsed seconds.
MaxElapsed == 2
\* A MinimaxPlayer is built with max_depth None or 0 .. MaxDepth.
MaxDepth == 2
\* The unlimited search is run on 3 x 3 boards with at most MaxEmpty empty cells.
MaxEmpty == 5
\* A player object that has answered on another board before is asked on
\* boards with at most MaxReuseEmpty empty cells.
MaxReuseEmpty == 3

\* Functions probed on their own take board sizes 1 .. MaxProbeSize
MaxProbeSize == 7
\* and max_depth arguments None or 0 .. MaxProbeDepth.
MaxProbeDepth == 7

\* get_move is called with an empty valid_moves on every array of size
\* 1 .. MaxEmptyListSize.
MaxEmptyListSize == 2

\* get_move sets win_length = min(5, board_size): windows have 1 .. MaxWindow cells.
MaxWindow == 5

\* Seeds of the RandomPlayers are 0 .. MaxSeed; the seeded game is run up to
\* MaxRuns times.
MaxSeed == 3
MaxRuns == 2

\* play_tournament is called with num_games 0 .. MaxGames on boards of size
\* 1 .. MaxTournamentSize (with win length 1 .. MaxWin).
MaxGames == 3
MaxTournamentSize == 2

\* The games in which every answer is a valid move are played on boards of
\* size 1 .. MaxValidGameSize.
MaxValidGameSize == 2

\* play_round_robin_tournament is called with 0 .. MaxParticipants
\* participants, whose names are 1 .. MaxNames, and 1 .. MaxGamesPerMatchup
\* games per matchup, on a 1 x 1 board with win length 1 .. MaxRoundRobinWin.
MaxParticipants == 3
MaxNames == 3
MaxGamesPerMatchup == 2
MaxRoundRobinWin == 2

None == -2

VARIABLES
    size,           \* TicTacToeGame.size
    win_length,     \* TicTacToeGame.win_length
    board,          \* TicTacToeGame.board: [<<row, col>> -> -1 | 0 | 1]
    current_player, \* TicTacToeGame.current_player
    move_history,   \* TicTacToeGame.move_history: sequence of <<row, col, player>>
    game_over,      \* TicTacToeGame.game_over
    winner,         \* TicTacToeGame.winner (None, -1, 0, 1)
    accepted,       \* ghost: the <<row, col, player-to-move>> of every call that returned True
    cw,             \* last _check_win probe on a drawn board: <<row, col, result>>, or <<>>
    pc,             \* play_game: "idle" (not running), "loop", "done" (returned),
                    \* "raised" (left by an exception of get_move), "hook_raised"
                    \* (left by an exception of a game_over hook)
    timeout,        \* play_game's timeout argument
    result,         \* the value play_game returned (None until it returns)
    forfeit,        \* ghost: which return statement of the loop ended the game, or "none"
    elo_system,     \* play_game's elo_system argument was given
    notified,       \* ghost: the <<side, winner>> of every game_over hook invoked
    elo_updates,    \* ghost: the result argument of every elo_system.update call
    players,        \* the player object of each side: [-1 |-> ..., 1 |-> ...]
    gm,             \* the last MinimaxPlayer.get_move call and what it returned, or <<>>
    call,           \* the last call of a function probed on its own: its name, its
                    \* arguments and what it returned, or <<>>
    tour,           \* play_tournament: its arguments, game_num, results and the
                    \* ghost log of the games played, or <<>>
    runs,           \* ghost: the outcome of every run of the seeded random game
    move_history_for_heatmap, \* play_game's local list of <<row, col, player_id>>
    heatmap,        \* play_game's heatmap argument: whether one was given, and the
                    \* <<row, col, player_id, is_winning>> of its record_move calls
    _last_game_moves, \* GameRunner._last_game_moves (None while the attribute is unset)
    stats,          \* play_tournament's GameStats: games_played, total_moves, move_counts
    rr              \* play_round_robin_tournament: its arguments, the matchups still
                    \* to play and its RoundRobinStats, or <<>>

game == <<size, win_length, board, current_player, move_history, game_over, winner>>
vars == <<size, win_length, board, current_player, move_history, game_over, winner,
          accepted, cw, pc, timeout, result, forfeit, elo_system, notified,
          elo_updates, players, gm, call, tour, runs,
          move_history_for_heatmap, heatmap, _last_game_moves, stats, rr>>

runner == <<pc, timeout, result, forfeit, elo_system, notified, elo_updates>>
search == <<players, gm>>
probes == <<call, tour, runs>>
books == <<move_history_for_heatmap, heatmap, _last_game_moves, stats, rr>>

Players == {-1, 1}
Cells(n) == (0 .. n - 1) \X (0 .. n - 1)

\* np.zeros((size, size), dtype=int)
zeros(n) == [m \in Cells(n) |-> 0]

\* win_length if win_length else (size if size <= 5 else 5): None and 0 are
\* both falsy.
init_win_length(n, wl) ==
    IF wl # None /\ wl # 0 THEN wl ELSE (IF n <= 5 THEN n ELSE 5)

\* Mutation of _resolve_win_length: only None counts as not given.
_resolve_win_length_is_none(size_arg, wl) ==
    IF wl # None THEN wl ELSE (IF size_arg <= 5 THEN size_arg ELSE 5)

\* main._resolve_win_length: win_length or (size if size <= 5 else 5)
_resolve_win_length(size_arg, wl) ==
    IF wl # None /\ wl # 0 THEN wl ELSE (IF size_arg <= 5 THEN size_arg ELSE 5)

InBounds(n, r, c) == 0 <= r /\ r < n /\ 0 <= c /\ c < n

\* One of the two while loops of _check_line: the number of cells holding
\* `player` met from (r, c) on, stepping by (dr, dc), up to the first cell that
\* is off the board or holds something else.
RECURSIVE walk(_, _, _, _, _, _, _)
walk(b, n, r, c, dr, dc, player) ==
    IF InBounds(n, r, c) /\ b[<<r, c>>] = player
    THEN 1 + walk(b, n, r + dr, c + dc, dr, dc, player)
    ELSE 0

\* Mutation of _check_line: the walk in the negative direction is left out.
_check_line_forward(b, n, k, row, col, dr, dc, player) ==
    LET count == 1 + walk(b, n, row + dr, col + dc, dr, dc, player)
    IN count >= k

_check_line(b, n, k, row, col, dr, dc, player) ==
    LET count == 1 + walk(b, n, row + dr, col + dc, dr, dc, player)
                   + walk(b, n, row - dr, col - dc, -dr, -dc, player)
    IN count >= k

\* Mutation of _check_win: a win length above the board size counts as the
\* board size.
_check_win_clamped(b, n, k, row, col) ==
    LET player == b[<<row, col>>]
        k1 == IF k > n THEN n ELSE k
    IN \/ _check_line(b, n, k1, row, col, 0, 1, player)
       \/ _check_line(b, n, k1, row, col, 1, 0, player)
       \/ _check_line(b, n, k1, row, col, 1, 1, player)
       \/ _check_line(b, n, k1, row, col, 1, -1, player)

\* Mutation of _check_win: the two diagonal directions are not looked at.
_check_win_no_diagonals(b, n, k, row, col) ==
    LET player == b[<<row, col>>]
    IN \/ _check_line(b, n, k, row, col, 0, 1, player)
       \/ _check_line(b, n, k, row, col, 1, 0, player)

_check_win(b, n, k, row, col) ==
    LET player == b[<<row, col>>]
    IN \/ _check_line(b, n, k, row, col, 0, 1, player)
       \/ _check_line(b, n, k, row, col, 1, 0, player)
       \/ _check_line(b, n, k, row, col, 1, 1, player)
       \/ _check_line(b, n, k, row, col, 1, -1, player)

\* The cells of an n x n board in row-major order, the order of np.where.
RowMajor(n) == [i \in 1 .. n * n |-> <<(i - 1) \div n, (i - 1) % n>>]

\* Mutation of get_valid_moves: np.where(board <= 0), which also lists the
\* cells of player -1.
get_valid_moves_le(b, n) == SelectSeq(RowMajor(n), LAMBDA m : b[m] <= 0)

\* list(zip(*np.where(board == 0)))
get_valid_moves(b, n) == SelectSeq(RowMajor(n), LAMBDA m : b[m] = 0)

\* Mutation of Rejects: the test of line 63 (cell occupied) is left out.
Rejects_no_occupied(row, col) ==
    \/ game_over
    \/ ~InBounds(size, row, col)

\* Mutation of Rejects: the test of line 57 (game over) is left out.
Rejects_no_game_over(row, col) ==
    \/ ~InBounds(size, row, col)
    \/ board[<<row, col>>] # 0

\* make_move, lines 57-64: the three early returns.
Rejects(row, col) ==
    \/ game_over
    \/ ~InBounds(size, row, col)
    \/ board[<<row, col>>] # 0

\* Mutation of place: the indices are swapped, board[col, row].
place_transposed(b, row, col, player) == [b EXCEPT ![<<col, row>>] = player]

\* self.board[row, col] = self.current_player
place(b, row, col, player) == [b EXCEPT ![<<row, col>>] = player]

\* Mutation of record: the entry is appended as (col, row, player).
record_swapped(h, row, col, player) == Append(h, <<col, row, player>>)

\* self.move_history.append((row, col, self.current_player))
record(h, row, col, player) == Append(h, <<row, col, player>>)

\* Mutation of outcome: the elif branch (board full: draw) is left out.
outcome_no_draw(b1, row, col) ==
    IF _check_win(b1, size, win_length, row, col)
    THEN [game_over |-> TRUE, winner |-> current_player, current_player |-> current_player]
    ELSE [game_over |-> game_over, winner |-> winner, current_player |-> -current_player]

\* Mutation of outcome: current_player is negated on every branch.
outcome_always_flips(b1, row, col) ==
    IF _check_win(b1, size, win_length, row, col)
    THEN [game_over |-> TRUE, winner |-> current_player, current_player |-> -current_player]
    ELSE IF Len(get_valid_moves(b1, size)) = 0
    THEN [game_over |-> TRUE, winner |-> 0, current_player |-> -current_player]
    ELSE [game_over |-> game_over, winner |-> winner, current_player |-> -current_player]

\* Mutation of outcome: the full board is tested before the winning line.
outcome_draw_first(b1, row, col) ==
    IF Len(get_valid_moves(b1, size)) = 0
    THEN [game_over |-> TRUE, winner |-> 0, current_player |-> current_player]
    ELSE IF _check_win(b1, size, win_length, row, col)
    THEN [game_over |-> TRUE, winner |-> current_player, current_player |-> current_player]
    ELSE [game_over |-> game_over, winner |-> winner, current_player |-> -current_player]

\* Mutation of outcome: the else branch leaves current_player as it is.
outcome_keeps_player(b1, row, col) ==
    IF _check_win(b1, size, win_length, row, col)
    THEN [game_over |-> TRUE, winner |-> current_player, current_player |-> current_player]
    ELSE IF Len(get_valid_moves(b1, size)) = 0
    THEN [game_over |-> TRUE, winner |-> 0, current_player |-> current_player]
    ELSE [game_over |-> game_over, winner |-> winner, current_player |-> current_player]

\* make_move, lines 69-76: what the move just placed on b1 at (row, col) makes
\* of game_over, winner and current_player.
outcome(b1, row, col) ==
    IF _check_win(b1, size, win_length, row, col)
    THEN [game_over |-> TRUE, winner |-> current_player, current_player |-> current_player]
    ELSE IF Len(get_valid_moves(b1, size)) = 0
    THEN [game_over |-> TRUE, winner |-> 0, current_player |-> current_player]
    ELSE [game_over |-> game_over, winner |-> winner, current_player |-> -current_player]

\* The value make_move(row, col) returns: False at lines 58, 61 and 64, True
\* at line 78.
make_move_ret(row, col) == ~Rejects(row, col)

make_move(row, col) ==
    IF Rejects(row, col)
    THEN UNCHANGED <<game, accepted>>
    ELSE LET b1 == place(board, row, col, current_player)
             o == outcome(b1, row, col)
         IN /\ board' = b1
            /\ move_history' = record(move_history, row, col, current_player)
            /\ game_over' = o.game_over
            /\ winner' = o.winner
            /\ current_player' = o.current_player
            /\ accepted' = Append(accepted, <<row, col, current_player>>)
            /\ UNCHANGED <<size, win_length>>

\* TicTacToeGame(size=n, win_length=wl) with an empty board.
TicTacToeGame(n, wl) ==
    /\ size = n
    /\ win_length = init_win_length(n, wl)
    /\ board = zeros(n)
    /\ current_player = -1
    /\ move_history = <<>>
    /\ game_over = FALSE
    /\ winner = None
    /\ accepted = <<>>

NoRunner ==
    /\ pc = "idle"
    /\ timeout = 0
    /\ result = None
    /\ forfeit = "none"
    /\ elo_system = FALSE
    /\ notified = <<>>
    /\ elo_updates = <<>>

\* A player that is no MinimaxPlayer: any implementation of Player.
AnyPlayer ==
    [kind |-> "any", player_id |-> 0, max_depth |-> None,
     board_size |-> None, win_length |-> None]

\* No function is probed on its own, no tournament and no seeded run is going on.
NoProbes ==
    /\ call = <<>>
    /\ tour = <<>>
    /\ runs = <<>>

\* GameStats() (lines 30-33 of game_runner.py): the fields that count games
\* and moves.
GameStats == [games_played |-> 0, total_moves |-> 0, move_counts |-> <<>>]

\* heatmap=None, or a HeatMapGenerator on which record_move was not called yet.
HeatMapGenerator(given) == [given |-> given, calls |-> <<>>]

\* No heat map is kept, no game was counted and no round robin is going on.
NoBooks ==
    /\ move_history_for_heatmap = <<>>
    /\ heatmap = HeatMapGenerator(FALSE)
    /\ _last_game_moves = None
    /\ stats = GameStats
    /\ rr = <<>>

NoSearch ==
    /\ players = [p \in Players |-> AnyPlayer]
    /\ gm = <<>>

Init ==
    /\ \E n \in 1 .. DefaultSize, wl \in 0 .. MaxWin : TicTacToeGame(n, wl)
    /\ cw = <<>>
    /\ NoProbes
    /\ NoBooks
    /\ NoRunner
    /\ NoSearch

\* The arguments a caller may hand to make_move on a board of size n.
Args(n) == (-Pad) .. (n - 1 + Pad)

Next ==
    \E row \in Args(size), col \in Args(size) :
        make_move(row, col) /\ UNCHANGED <<cw, runner, search, probes, books>>

\* Any sequence of make_move calls on a new game.
Spec == Init /\ [][Next]_vars

(***************************************************************************)
(* _check_win as a pure function: any board contents, then probes.         *)
(***************************************************************************)
InitBoards ==
    /\ size \in 1 .. DefaultSize
    /\ \E wl \in 0 .. MaxWin : win_length = init_win_length(size, wl)
    /\ board \in [Cells(size) -> {-1, 0, 1}]
    /\ current_player = -1
    /\ move_history = <<>>
    /\ game_over = FALSE
    /\ winner = None
    /\ accepted = <<>>
    /\ cw = <<>>
    /\ NoProbes
    /\ NoBooks
    /\ NoRunner
    /\ NoSearch

check_win_call(row, col) ==
    /\ cw' = <<row, col, _check_win(board, size, win_length, row, col)>>
    /\ UNCHANGED <<game, accepted, runner, search, probes, books>>

NextBoards == \E m \in Cells(size) : check_win_call(m[1], m[2])

SpecBoards == InitBoards /\ [][NextBoards]_vars

(***************************************************************************)
(* MinimaxPlayer.  A player object is a record of its fields; the search   *)
(* works by apply / undo on the one array it is handed, so _minimax and    *)
(* get_move return, next to their value, the array as they leave it        *)
(* (board), whether every frame below them returned the array as it        *)
(* received it (ok) and how many loops below them were left by a break     *)
(* with moves still to try (cuts).                                         *)
(***************************************************************************)

\* float('inf'): above every score and every depth of the search.
inf == 1000000

max(a, b) == IF a >= b THEN a ELSE b
min(a, b) == IF a <= b THEN a ELSE b

RECURSIVE SumTo(_, _)
SumTo(f, m) == IF m = 0 THEN 0 ELSE f[m] + SumTo(f, m - 1)

\* MinimaxPlayer(name, player_id, max_depth): board_size and win_length are
\* None until the first get_move.
MinimaxPlayer(player_id, max_depth) ==
    [kind |-> "minimax", player_id |-> player_id, max_depth |-> max_depth,
     board_size |-> None, win_length |-> None]

\* Mutation of _has_won: the scan of the anti-diagonals is left out.
_has_won_no_anti_diagonal(b, n, k, player) ==
    \/ \E i \in 0 .. n - 1, j \in 0 .. n - k :
           \A t \in 0 .. k - 1 : b[<<i, j + t>>] = player
    \/ \E i \in 0 .. n - k, j \in 0 .. n - 1 :
           \A t \in 0 .. k - 1 : b[<<i + t, j>>] = player
    \/ \E i \in 0 .. n - k, j \in 0 .. n - k :
           \A t \in 0 .. k - 1 : b[<<i + t, j + t>>] = player

\* _has_won: the four scans over windows of k cells on an n x n array.
_has_won(b, n, k, player) ==
    \/ \E i \in 0 .. n - 1, j \in 0 .. n - k :
           \A t \in 0 .. k - 1 : b[<<i, j + t>>] = player
    \/ \E i \in 0 .. n - k, j \in 0 .. n - 1 :
           \A t \in 0 .. k - 1 : b[<<i + t, j>>] = player
    \/ \E i \in 0 .. n - k, j \in 0 .. n - k :
           \A t \in 0 .. k - 1 : b[<<i + t, j + t>>] = player
    \/ \E i \in 0 .. n - k, j \in k - 1 .. n - 1 :
           \A t \in 0 .. k - 1 : b[<<i + t, j - t>>] = player

\* _check_winner: -1 is looked for before 1, then the full board.
_check_winner(b, n, k) ==
    IF _has_won(b, n, k, -1) THEN -1
    ELSE IF _has_won(b, n, k, 1) THEN 1
    ELSE IF \A m \in Cells(n) : b[m] # 0 THEN 0
    ELSE None

\* np.sum(window == v)
Count(window, v) == Cardinality({t \in DOMAIN window : window[t] = v})

\* Mutation of _evaluate_window: the scores 10 and 5 change places.
_evaluate_window_swapped(window, k, player) ==
    LET player_count == Count(window, player)
        empty_count == Count(window, 0)
        opponent_count == Count(window, -player)
    IN IF opponent_count > 0 THEN 0
       ELSE IF player_count = k - 1 /\ empty_count = 1 THEN 5
       ELSE IF player_count = k - 2 /\ empty_count = 2 THEN 10
       ELSE IF player_count > 0 THEN player_count
       ELSE 0

_evaluate_window(window, k, player) ==
    LET player_count == Count(window, player)
        empty_count == Count(window, 0)
        opponent_count == Count(window, -player)
    IN IF opponent_count > 0 THEN 0
       ELSE IF player_count = k - 1 /\ empty_count = 1 THEN 10
       ELSE IF player_count = k - 2 /\ empty_count = 2 THEN 5
       ELSE IF player_count > 0 THEN player_count
       ELSE 0

\* Mutation of multiplier: the windows of player_id weigh double.
multiplier_double(player, player_id) == IF player = player_id THEN 2 ELSE -1

\* multiplier = 1 if player == self.player_id else -1 (line 193)
multiplier(player, player_id) == IF player = player_id THEN 1 ELSE -1

\* _evaluate_position: the windows of the rows and of the columns (and of no
\* diagonal), first for player_id, then with multiplier -1 for its opponent.
_evaluate_position(b, n, k, player_id) ==
    LET w == IF n - k + 1 > 0 THEN n - k + 1 ELSE 0
        rows(player) ==
            [p \in 1 .. n * w |->
                LET i == (p - 1) \div w
                    j == (p - 1) % w
                IN _evaluate_window([t \in 1 .. k |-> b[<<i, j + t - 1>>]], k, player)]
        cols(player) ==
            [p \in 1 .. w * n |->
                LET i == (p - 1) \div n
                    j == (p - 1) % n
                IN _evaluate_window([t \in 1 .. k |-> b[<<i + t - 1, j>>]], k, player)]
        total(player) == SumTo(rows(player), n * w) + SumTo(cols(player), w * n)
    IN multiplier(player_id, player_id) * total(player_id)
         + multiplier(-player_id, player_id) * total(-player_id)

\* Mutation of undo: the write of 0 is left out.
undo_missing(b, row, col) == b

\* board[row, col] = 0 (lines 68, 115, 126)
undo(b, row, col) == [b EXCEPT ![<<row, col>>] = 0]

\* Mutation of prune: the break is taken after the first child whatever the
\* window (a break outside its if).
prune_always(alpha, beta) == TRUE

\* if beta <= alpha: break (lines 118, 129)
prune(alpha, beta) == beta <= alpha

\* Mutation of terminal_score: a game won by the opponent scores like a game
\* won by the player (the sign of line 97 dropped).
terminal_score_unsigned(w, player_id, depth) ==
    IF w = player_id \/ w = -player_id THEN 1000 - depth ELSE 0

\* The score of a node where _check_winner found the game decided
\* (lines 94-99).
terminal_score(w, player_id, depth) ==
    IF w = player_id THEN 1000 - depth
    ELSE IF w = -player_id THEN -1000 + depth
    ELSE 0

\* A for loop over valid_moves (lines 59, 112, 123), at most nine moves, begun
\* in state s0: step(i, s) is the state in which the i-th step leaves the loop
\* that was in state s.  The steps are made one after the other, each on the
\* state the step before left, and the loop is left in the state of the last.
for(step(_, _), s0) ==
    LET s1 == step(1, s0)
        s2 == step(2, s1)
        s3 == step(3, s2)
        s4 == step(4, s3)
        s5 == step(5, s4)
        s6 == step(6, s5)
        s7 == step(7, s6)
        s8 == step(8, s7)
        s9 == step(9, s8)
    IN <<s1, s2, s3, s4, s5, s6, s7, s8, s9>>[9]

RECURSIVE _minimax(_, _, _, _, _, _, _, _, _)

\* What a pass of the for loop of _minimax makes of the loop state s once the
\* recursive call on the array b1, with the i-th move m written, has
\* returned r (lines 114-119 and 125-130): the move is undone, max_eval or
\* min_eval (eval) and the window are updated, and the loop is left by the
\* break when the window is empty.
_minimax_after(valid_moves, i, is_maximizing, s, b1, r) ==
    LET m == valid_moves[i]
        alpha1 == IF is_maximizing THEN max(s.alpha, r.eval) ELSE s.alpha
        beta1 == IF is_maximizing THEN s.beta ELSE min(s.beta, r.eval)
        break == prune(alpha1, beta1)
    IN [ok |-> r.ok /\ s.ok /\ r.board = b1,
        board |-> undo(r.board, m[1], m[2]),
        eval |-> IF is_maximizing THEN max(s.eval, r.eval) ELSE min(s.eval, r.eval),
        alpha |-> alpha1,
        beta |-> beta1,
        cuts |-> s.cuts + r.cuts + (IF break /\ i < Len(valid_moves) THEN 1 ELSE 0),
        done |-> break]

\* The array s.board with the i-th of valid_moves written for side v
\* (lines 62, 113, 124).
apply(valid_moves, i, v, s) == place(s.board, valid_moves[i][1], valid_moves[i][2], v)

\* One step of the for loop of _minimax (lines 112-119 and 123-130) in loop
\* state s: the loop is over when valid_moves has no i-th move or the pass
\* before ended in the break; else the pass for the i-th move is made, with
\* the array and the window taken from s.
_minimax_pass(player_id, n, k, valid_moves, i, depth, is_maximizing, max_depth, s) ==
    IF i > Len(valid_moves) \/ s.done THEN s
    ELSE _minimax_after(valid_moves, i, is_maximizing, s,
             apply(valid_moves, i, IF is_maximizing THEN player_id ELSE -player_id, s),
             _minimax(player_id, n, k,
                 apply(valid_moves, i, IF is_maximizing THEN player_id ELSE -player_id, s),
                 depth + 1, ~is_maximizing, s.alpha, s.beta, max_depth))

\* _minimax: eval is the value returned; a node whose moves are tried returns
\* the state in which its loop was left.
_minimax(player_id, n, k, b, depth, is_maximizing, alpha, beta, max_depth) ==
    LET w == _check_winner(b, n, k)
        valid_moves == get_valid_moves(b, n)
    IN IF w # None
       THEN [eval |-> terminal_score(w, player_id, depth), board |-> b, ok |-> TRUE,
             cuts |-> 0]
       ELSE IF depth >= max_depth
       THEN [eval |-> _evaluate_position(b, n, k, player_id), board |-> b, ok |-> TRUE,
             cuts |-> 0]
       ELSE IF valid_moves = <<>>
       THEN [eval |-> 0, board |-> b, ok |-> TRUE, cuts |-> 0]
       ELSE for(LAMBDA i, s : _minimax_pass(player_id, n, k, valid_moves, i, depth,
                                            is_maximizing, max_depth, s),
                [eval |-> IF is_maximizing THEN -inf ELSE inf, board |-> b,
                 alpha |-> alpha, beta |-> beta, ok |-> TRUE, cuts |-> 0,
                 done |-> FALSE])

\* Mutation of depth_limit: "if not self.max_depth", a max_depth of 0 counts
\* as not supplied.
depth_limit_falsy(max_depth, n) ==
    IF max_depth = None \/ max_depth = 0
    THEN (IF n <= 3 THEN inf ELSE IF n <= 5 THEN 6 ELSE 3)
    ELSE max_depth

\* Lines 46-54: the depth limit of a get_move call on an n x n array.
depth_limit(max_depth, n) ==
    IF max_depth = None
    THEN (IF n <= 3 THEN inf ELSE IF n <= 5 THEN 6 ELSE 3)
    ELSE max_depth

\* Mutation of set_board_parameters: win_length is set only while it is None.
set_board_parameters_once(self, n) ==
    [self EXCEPT !.board_size = n,
                 !.win_length = IF @ = None THEN min(5, n) ELSE @]

\* Lines 42-43: board_size and win_length are set from the array at every call.
set_board_parameters(self, n) ==
    [self EXCEPT !.board_size = n, !.win_length = min(5, n)]

\* Mutation of better: ties go to the later move.
better_or_equal(score, best_score) == score >= best_score

\* if score > best_score (line 70)
better(score, best_score) == score > best_score

\* What a pass of the for loop of get_move makes of the loop state s once
\* _minimax, called on the array b1 with the i-th move m written, has
\* returned r (lines 65-72).
get_move_after(valid_moves, i, s, b1, r) ==
    LET m == valid_moves[i]
        take == better(r.eval, s.best_score)
    IN [ok |-> r.ok /\ s.ok /\ r.board = b1,
        board |-> undo(r.board, m[1], m[2]),
        best_score |-> IF take THEN r.eval ELSE s.best_score,
        best_move |-> IF take THEN m ELSE s.best_move,
        scores |-> Append(s.scores, r.eval),
        cuts |-> s.cuts + r.cuts]

\* One step of the for loop of get_move (lines 59-72) in loop state s: the
\* loop is over when valid_moves has no i-th move; else the pass for the i-th
\* move is made.
get_move_pass(self, valid_moves, i, limit, s) ==
    IF i > Len(valid_moves) THEN s
    ELSE get_move_after(valid_moves, i, s,
             apply(valid_moves, i, self.player_id, s),
             _minimax(self.player_id, self.board_size, self.win_length,
                      apply(valid_moves, i, self.player_id, s),
                      0, FALSE, -inf, inf, limit))

\* What get_move returns (line 74) when its loop was left in state s: the
\* move, the score _minimax gave each move, the array as the call leaves it
\* and the player object after the call.
get_move_return(self, s) ==
    [move |-> s.best_move, scores |-> s.scores, board |-> s.board, ok |-> s.ok,
     cuts |-> s.cuts, self |-> self, raised |-> FALSE]

\* Mutation of no_valid_moves: the call returns None instead of raising.
no_valid_moves_silent(self, b) ==
    [move |-> None, scores |-> <<>>, board |-> b, ok |-> TRUE, cuts |-> 0,
     self |-> self, raised |-> FALSE]

\* Lines 38-39: raise ValueError("No valid moves available"), before the
\* player object or the array b is touched.
no_valid_moves(self, b) ==
    [move |-> None, scores |-> <<>>, board |-> b, ok |-> TRUE, cuts |-> 0,
     self |-> self, raised |-> TRUE]

\* MinimaxPlayer.get_move(board, valid_moves) on an n x n array b.
get_move(self, b, n, valid_moves) ==
    IF valid_moves = <<>> THEN no_valid_moves(self, b)
    ELSE get_move_return(set_board_parameters(self, n),
        for(LAMBDA i, s : get_move_pass(set_board_parameters(self, n), valid_moves, i,
                                        depth_limit(self.max_depth, n), s),
            [board |-> b, best_score |-> -inf, best_move |-> valid_moves[1],
             scores |-> <<>>, ok |-> TRUE, cuts |-> 0]))

\* The number of empty cells of b.
empty_count(b, n) == Cardinality({m \in Cells(n) : b[m] = 0})

\* The side to move on a board of a game that player -1 began.
to_move(b, n) ==
    IF Cardinality({m \in Cells(n) : b[m] = -1}) = Cardinality({m \in Cells(n) : b[m] = 1})
    THEN -1 ELSE 1

\* The boards a game of win length k can show when a move is asked for: the
\* marks of the two sides alternate from player -1 on, some cell is empty and
\* no cell lies in a winning line.
Positions(n, k) ==
    {b \in [Cells(n) -> {-1, 0, 1}] :
        /\ Cardinality({m \in Cells(n) : b[m] = -1})
             - Cardinality({m \in Cells(n) : b[m] = 1}) \in {0, 1}
        /\ \E m \in Cells(n) : b[m] = 0
        /\ \A m \in Cells(n) : b[m] # 0 => ~_check_win(b, n, k, m[1], m[2])}

\* The max_depth arguments explored.
Depths == {None} \cup (0 .. MaxDepth)

\* A player object as an earlier get_move on a board of size prior left it
\* (prior = None: never asked).
Used(self, prior) ==
    IF prior = None THEN self ELSE set_board_parameters(self, prior)

\* What a call player.get_move(b, valid_moves) on the n x n array b did.
call_record(self, b, valid_moves, r) ==
    [self |-> self, board |-> b, valid_moves |-> valid_moves,
     move |-> r.move, scores |-> r.scores, after |-> r.board,
     ok |-> r.ok, cuts |-> r.cuts, self_after |-> r.self]

\* The call player.get_move(b, valid_moves) on the n x n array b.
get_move_record(self, b, n, valid_moves) ==
    call_record(self, b, valid_moves, get_move(self, b, n, valid_moves))

\* A RandomPlayer object of side player_id: the attributes Player.__init__
\* sets; get_move reads none of them.
RandomPlayerObject(player_id) == [AnyPlayer EXCEPT !.kind = "random", !.player_id = player_id]

\* Mutation of choice: a cell of the diagonal is drawn, legal or not.
choice_cell(seq, x) == <<x, x>>

\* random.choice(seq) when the generator draws x below len(seq).
choice(seq, x) == seq[x + 1]

\* RandomPlayer.get_move(board, valid_moves) (line 36) when the generator
\* draws x: board is not looked at.
random_get_move(b, valid_moves, x) == choice(valid_moves, x)

\* A MinimaxPlayer of the side to move, new or used before, or a RandomPlayer
\* of that side, is about to be asked for a move on a position of a game.
InitSearch ==
    /\ size \in 1 .. DefaultSize
    /\ \E wl \in 0 .. MaxWin : win_length = init_win_length(size, wl)
    /\ board \in Positions(size, win_length)
    /\ current_player = to_move(board, size)
    /\ move_history = <<>>
    /\ game_over = FALSE
    /\ winner = None
    /\ accepted = <<>>
    /\ cw = <<>>
    /\ NoProbes
    /\ NoBooks
    /\ NoRunner
    /\ \/ \E d \in Depths, prior \in {None} \cup (1 .. DefaultSize) :
              /\ d = None => empty_count(board, size) <= MaxEmpty
              /\ prior # None => empty_count(board, size) <= MaxReuseEmpty
              /\ players = [p \in Players |->
                               IF p = current_player
                               THEN Used(MinimaxPlayer(p, d), prior)
                               ELSE AnyPlayer]
       \/ players = [p \in Players |->
                        IF p = current_player THEN RandomPlayerObject(p) ELSE AnyPlayer]
    /\ gm = <<>>

\* players[current_player].get_move(game.board, game.get_valid_moves()): the
\* search runs on the array it is handed.
get_move_call ==
    /\ players[current_player].kind = "minimax"
    /\ gm = <<>>
    /\ gm' = get_move_record(players[current_player], board, size,
                             get_valid_moves(board, size))
    /\ board' = gm'.after
    /\ players' = [players EXCEPT ![current_player] = gm'.self_after]
    /\ UNCHANGED <<size, win_length, current_player, move_history, game_over,
                   winner, accepted, cw, runner, probes, books>>

\* players[current_player].get_move(game.board, game.get_valid_moves()) of a
\* RandomPlayer whose generator draws x.
random_get_move_call(x) ==
    /\ players[current_player].kind = "random"
    /\ call = <<>>
    /\ x < Len(get_valid_moves(board, size))
    /\ call' = [op |-> "RandomPlayer.get_move", board |-> board,
                valid_moves |-> get_valid_moves(board, size),
                move |-> random_get_move(board, get_valid_moves(board, size), x),
                after |-> board]
    /\ UNCHANGED <<game, accepted, cw, runner, search, tour, runs, books>>

NextSearch ==
    \/ get_move_call
    \/ \E x \in 0 .. DefaultSize * DefaultSize - 1 : random_get_move_call(x)

SpecSearch == InitSearch /\ [][NextSearch]_vars

(***************************************************************************)
(* Two MinimaxPlayers asked in turn on the game's board, each answer       *)
(* applied with make_move.                                                 *)
(***************************************************************************)

\* The max_depth arguments of the two MinimaxPlayers of a game: both
\* unlimited, or each with a limit.
DepthPairs ==
    {<<None, None>>} \cup ((0 .. MaxDepth) \X (0 .. MaxDepth))

\* The two players of a game between MinimaxPlayers: the first mover has
\* player_id -1 and the second 1, or the same two objects in the other order.
MinimaxPairs ==
    {[p \in Players |-> MinimaxPlayer(p * s, IF p = -1 THEN d[1] ELSE d[2])] :
        s \in {1, -1}, d \in DepthPairs}

InitDuel ==
    /\ \E n \in 1 .. DefaultSize, wl \in 0 .. MaxWin : TicTacToeGame(n, wl)
    /\ players \in MinimaxPairs
    /\ gm = <<>>
    /\ cw = <<>>
    /\ NoProbes
    /\ NoBooks
    /\ NoRunner

\* move = players[game.current_player].get_move(game.board,
\* game.get_valid_moves()); game.make_move(*move)
duel_turn ==
    /\ ~game_over
    /\ gm' = get_move_record(players[current_player], board, size,
                             get_valid_moves(board, size))
    /\ gm'.after = board
    /\ players' = [players EXCEPT ![current_player] = gm'.self_after]
    /\ make_move(gm'.move[1], gm'.move[2])
    /\ UNCHANGED <<cw, runner, probes, books>>

NextDuel == duel_turn

SpecDuel == InitDuel /\ [][NextDuel]_vars

(***************************************************************************)
(* GameRunner.play_game.  A player is any MoveSource: what get_move does   *)
(* on a turn is drawn from Responses.                                      *)
(***************************************************************************)

\* game.get_immutable_board(): a read-only copy of the board for the player.
\* data is what the view shows, writeable whether an item assignment on it
\* goes through, own whether it is the game's own array.
get_immutable_board == [data |-> board, writeable |-> FALSE, own |-> FALSE]

\* view[row, col] = v: on a read-only view the assignment raises ValueError
\* and the view shows what it showed.
setitem(view, row, col, v) ==
    IF view.writeable
    THEN [raised |-> FALSE, data |-> place(view.data, row, col, v)]
    ELSE [raised |-> TRUE, data |-> view.data]

\* Mutation of board_arg: game.board itself is handed to get_move.
board_arg_own == [data |-> board, writeable |-> TRUE, own |-> TRUE]

\* The first argument of get_move at line 279.
board_arg == get_immutable_board

\* The second argument of get_move at line 279: tuple(game.get_valid_moves()).
valid_moves_arg == get_valid_moves(board, size)

\* What MinimaxPlayer.get_move does on the view: its first write (line 62)
\* raises on a read-only view, and otherwise the search runs on view.data.
MinimaxResponses(self, view, valid_moves) ==
    IF setitem(view, valid_moves[1][1], valid_moves[1][2], self.player_id).raised
    THEN [kind : {"raise"}, row : {0}, col : {0}, elapsed : {0}]
    ELSE LET r == get_move(self, view.data, size, valid_moves)
         IN [kind : {"move"}, row : {r.move[1]}, col : {r.move[2]},
             elapsed : 0 .. MaxElapsed]

\* What a get_move call of any other player may do: return a pair of integers
\* ("move"), return something that is no tuple or list of length 2
\* ("malformed"), return a pair with a non-integer in it ("nonint"), raise an
\* Exception ("raise"), raise a BaseException that is no Exception, as
\* HumanPlayer.get_move does with KeyboardInterrupt ("raise_base"), or assign
\* its side token to item (row, col) of the view without handling what the
\* assignment raises and, if it raises nothing, return None ("write").
\* elapsed is the time the call took.
AnyResponses ==
    [kind : {"move"}, row : Args(size), col : Args(size), elapsed : 0 .. MaxElapsed]
    \cup [kind : {"malformed", "nonint"}, row : {0}, col : {0}, elapsed : 0 .. MaxElapsed]
    \cup [kind : {"raise", "raise_base"}, row : {0}, col : {0}, elapsed : {0}]
    \cup [kind : {"write"}, row : 0 .. size - 1, col : 0 .. size - 1, elapsed : {0}]

Responses(self, view, valid_moves) ==
    IF self.kind = "minimax"
    THEN MinimaxResponses(self, view, valid_moves)
    ELSE AnyResponses

\* The player object after its get_move was called on an n x n board:
\* MinimaxPlayer sets board_size and win_length before anything can raise.
after_get_move(self, n) ==
    IF self.kind = "minimax" THEN set_board_parameters(self, n) ELSE self

\* Mutation of forfeit_winner: the sign is dropped, return game.current_player.
forfeit_winner_self(player) == player

\* return -game.current_player (lines 286, 292, 304, 309, 330)
forfeit_winner(player) == -player

hooks == <<elo_system, notified, elo_updates>>

\* One of the return statements inside the loop: nothing after the loop runs.
Forfeit(reason) ==
    /\ pc' = "done"
    /\ result' = forfeit_winner(current_player)
    /\ forfeit' = reason
    /\ UNCHANGED <<game, accepted, timeout, hooks, move_history_for_heatmap>>

\* Mutation of timed_out: a move that takes exactly the timeout is late.
timed_out_at_limit(limit, elapsed) == limit # 0 /\ elapsed >= limit

\* if timeout and elapsed > timeout (line 301)
timed_out(limit, elapsed) == limit # 0 /\ elapsed > limit

\* Lines 312-313, run after make_move returned True:
\* move_history_for_heatmap.append((row, col, game.current_player)), where
\* player is game.current_player at that point.
heatmap_entry(row, col, player) == <<row, col, player>>

\* One pass of the while loop of play_game (lines 268-330) in which get_move
\* is called and answers with resp.
turn(resp) ==
    /\ pc = "loop"
    /\ ~game_over
    /\ valid_moves_arg # <<>>
    /\ resp \in Responses(players[current_player], board_arg, valid_moves_arg)
    /\ players' = [players EXCEPT ![current_player] = after_get_move(@, size)]
    /\ gm' = gm
    /\ IF resp.kind = "raise_base"
       THEN /\ pc' = "raised"
            /\ UNCHANGED <<game, accepted, timeout, result, forfeit, hooks,
                           move_history_for_heatmap>>
       ELSE IF resp.kind = "write"
       THEN LET w == setitem(board_arg, resp.row, resp.col, current_player)
            IN IF w.raised THEN Forfeit("error")
               ELSE /\ board' = IF board_arg.own THEN w.data ELSE board
                    /\ pc' = "done"
                    /\ result' = forfeit_winner(current_player)
                    /\ forfeit' = "format"
                    /\ UNCHANGED <<size, win_length, current_player, move_history,
                                   game_over, winner, accepted, timeout, hooks,
                                   move_history_for_heatmap>>
       ELSE IF resp.kind = "raise" THEN Forfeit("error")
       ELSE IF resp.kind = "malformed" THEN Forfeit("format")
       ELSE IF resp.kind = "nonint" THEN Forfeit("type")
       ELSE IF timed_out(timeout, resp.elapsed) THEN Forfeit("timeout")
       ELSE IF ~make_move_ret(resp.row, resp.col)
       THEN /\ make_move(resp.row, resp.col)
            /\ pc' = "done"
            /\ result' = forfeit_winner(current_player)
            /\ forfeit' = "invalid"
            /\ UNCHANGED <<timeout, hooks, move_history_for_heatmap>>
       ELSE /\ make_move(resp.row, resp.col)
            /\ move_history_for_heatmap' =
                   IF heatmap.given
                   THEN Append(move_history_for_heatmap,
                               heatmap_entry(resp.row, resp.col, current_player'))
                   ELSE move_history_for_heatmap
            /\ UNCHANGED runner
    /\ UNCHANGED <<heatmap, _last_game_moves>>

\* Lines 357-362: the result handed to elo_system.update.
elo_result(w) == IF w = -1 THEN 1 ELSE IF w = 1 THEN -1 ELSE 0

\* Line 350: whether an entry of player_id belongs to the winner's moves.
is_winning(player_id, w) ==
    IF w # 0 THEN (IF w = player_id THEN "True" ELSE "False") ELSE "None"

\* Lines 347-352: heatmap.record_move(row, col, player_id, is_winning) for
\* every entry of move_history_for_heatmap, in order.
record_moves(h, entries, w) ==
    IF h.given
    THEN [h EXCEPT !.calls = @ \o [i \in DOMAIN entries |->
                 <<entries[i][1], entries[i][2], entries[i][3],
                   is_winning(entries[i][3], w)>>]]
    ELSE h

\* move_count of play_game: incremented at line 315 after every make_move
\* that returned True.
move_count == Len(move_history)

\* play_game once the loop is left (lines 332-368): player1.game_over and
\* player2.game_over are called outside any try, each returning or raising
\* (h1, h2); then the ratings are updated and game.winner is returned.
finish(h1, h2) ==
    /\ pc = "loop"
    /\ game_over \/ valid_moves_arg = <<>>
    /\ IF h1 = "raise"
       THEN /\ notified' = Append(notified, <<-1, winner>>)
            /\ pc' = "hook_raised"
            /\ UNCHANGED <<result, elo_updates, heatmap, _last_game_moves>>
       ELSE IF h2 = "raise"
       THEN /\ notified' = notified \o <<<<-1, winner>>, <<1, winner>>>>
            /\ pc' = "hook_raised"
            /\ UNCHANGED <<result, elo_updates, heatmap, _last_game_moves>>
       ELSE /\ notified' = notified \o <<<<-1, winner>>, <<1, winner>>>>
            /\ heatmap' = record_moves(heatmap, move_history_for_heatmap, winner)
            /\ elo_updates' = IF elo_system
                              THEN Append(elo_updates, elo_result(winner))
                              ELSE elo_updates
            /\ _last_game_moves' = move_count
            /\ pc' = "done"
            /\ result' = winner
    /\ UNCHANGED <<game, accepted, timeout, forfeit, elo_system, search,
                   move_history_for_heatmap>>

\* The games short enough to explore under every kind of player response:
\* every board below 3 x 3, and the 3 x 3 board with a win length below 3.
RunnerGames ==
    {g \in (1 .. DefaultSize) \X (1 .. MaxWin) : g[1] < 3 \/ g[2] < 3}

\* GameRunner(size, win_length).play_game(player1, player2, timeout=...,
\* elo_system=..., heatmap=...) on a new GameRunner up to the first test of
\* the while loop; line 256 and 257
\* hand the win length of the game to both player objects.
InitRunner ==
    /\ \/ /\ \E g \in RunnerGames : TicTacToeGame(g[1], g[2])
          /\ players = [p \in Players |-> [AnyPlayer EXCEPT !.win_length = win_length]]
       \/ /\ \E n \in 1 .. DefaultSize, wl \in 0 .. MaxWin : TicTacToeGame(n, wl)
          /\ \E pair \in MinimaxPairs :
                 players = [p \in Players |-> [pair[p] EXCEPT !.win_length = win_length]]
    /\ gm = <<>>
    /\ cw = <<>>
    /\ NoProbes
    /\ move_history_for_heatmap = <<>>
    /\ \E given \in BOOLEAN : heatmap = HeatMapGenerator(given)
    /\ _last_game_moves = None
    /\ stats = GameStats
    /\ rr = <<>>
    /\ pc = "loop"
    /\ timeout \in 0 .. MaxTimeout
    /\ result = None
    /\ forfeit = "none"
    /\ elo_system \in BOOLEAN
    /\ notified = <<>>
    /\ elo_updates = <<>>

NextRunner ==
    \/ \E resp \in Responses(players[current_player], board_arg, valid_moves_arg) :
           turn(resp) /\ UNCHANGED <<cw, probes, stats, rr>>
    \/ \E h1, h2 \in {"return", "raise"} : finish(h1, h2) /\ UNCHANGED <<cw, probes, stats, rr>>

SpecRunner == InitRunner /\ [][NextRunner]_vars

(***************************************************************************)
(* play_game between two players that return, on every turn and within the *)
(* timeout, one of the valid moves they were handed.                       *)
(***************************************************************************)

\* The answers of a get_move call that returns one of valid_moves in time.
ValidResponses(valid_moves) ==
    {resp \in AnyResponses :
        /\ resp.kind = "move"
        /\ \E i \in DOMAIN valid_moves : valid_moves[i] = <<resp.row, resp.col>>
        /\ timeout = 0 \/ resp.elapsed <= timeout}

\* play_game(player1, player2, timeout=...) on a new GameRunner of a board up
\* to MaxValidGameSize, without heat map and rating system.
InitValidGame ==
    /\ \E n \in 1 .. MaxValidGameSize, wl \in 0 .. MaxWin : TicTacToeGame(n, wl)
    /\ players = [p \in Players |-> [AnyPlayer EXCEPT !.win_length = win_length]]
    /\ gm = <<>>
    /\ cw = <<>>
    /\ NoProbes
    /\ NoBooks
    /\ pc = "loop"
    /\ timeout \in 0 .. MaxTimeout
    /\ result = None
    /\ forfeit = "none"
    /\ elo_system = FALSE
    /\ notified = <<>>
    /\ elo_updates = <<>>

NextValidGame ==
    \/ \E resp \in ValidResponses(valid_moves_arg) :
           turn(resp) /\ UNCHANGED <<cw, probes, stats, rr>>
    \/ \E h1, h2 \in {"return", "raise"} : finish(h1, h2) /\ UNCHANGED <<cw, probes, stats, rr>>

SpecValidGame == InitValidGame /\ [][NextValidGame]_vars

\* The while loop of play_game goes on as long as the players answer, and
\* the code after it runs once the loop is left.
FairValidGame == SpecValidGame /\ WF_vars(NextValidGame)

(***************************************************************************)
(* Functions called on their own: call holds the name, the arguments and   *)
(* the result of the last call.                                            *)
(***************************************************************************)

\* No game is played while functions are probed.
InitCalls ==
    /\ TicTacToeGame(DefaultSize, 0)
    /\ cw = <<>>
    /\ NoProbes
    /\ NoBooks
    /\ NoRunner
    /\ NoSearch

\* A behaviour holds one call, and call is the only variable it writes.
probed(r) ==
    /\ call' = r
    /\ UNCHANGED <<game, accepted, cw, runner, search, tour, runs, books>>

\* Lines 45-54 of get_move for a player built with max_depth, asked on an
\* n x n array.
depth_limit_call ==
    /\ call = <<>>
    /\ \E max_depth \in {None} \cup (0 .. MaxProbeDepth), n \in 1 .. MaxProbeSize :
           probed([op |-> "depth_limit", max_depth |-> max_depth, board_size |-> n,
                   ret |-> depth_limit(max_depth, n)])

\* What player.get_move(b, ()) on the array b did.
no_moves_record(self, b, r) ==
    [op |-> "get_move", self |-> self, board |-> b, valid_moves |-> <<>>,
     raised |-> r.raised, move |-> r.move, after |-> r.board, self_after |-> r.self]

\* player.get_move(b, ()) on an n x n array b: no legal move is offered.
get_move_no_moves_call ==
    /\ call = <<>>
    /\ \E n \in 1 .. MaxEmptyListSize, p \in Players, d \in {None, 0} :
           \E b \in [Cells(n) -> {-1, 0, 1}] :
               probed(no_moves_record(MinimaxPlayer(p, d), b,
                                      get_move(MinimaxPlayer(p, d), b, n, <<>>)))

\* player._evaluate_position(b) on an n x n array b, for a player object of
\* side player_id whose board_size is n and whose win_length is k.
_evaluate_position_call ==
    /\ call = <<>>
    /\ \E n \in 1 .. DefaultSize, player_id \in Players :
           \E k \in 1 .. n, b \in [Cells(n) -> {-1, 0, 1}] :
               probed([op |-> "_evaluate_position", board |-> b, board_size |-> n,
                       win_length |-> k, player_id |-> player_id,
                       ret |-> _evaluate_position(b, n, k, player_id)])

\* player._evaluate_window(window, player) for a player object whose
\* win_length is k and a window of k cells.
_evaluate_window_call ==
    /\ call = <<>>
    /\ \E k \in 1 .. MaxWindow, player \in Players :
           \E window \in [1 .. k -> {-1, 0, 1}] :
               probed([op |-> "_evaluate_window", window |-> window, win_length |-> k,
                       player |-> player, ret |-> _evaluate_window(window, k, player)])

\* TicTacToeGame(size, win_length).win_length and
\* main._resolve_win_length(size, win_length) for the same arguments.
win_length_call ==
    /\ call = <<>>
    /\ \E n \in 1 .. MaxProbeSize, wl \in {None} \cup (0 .. MaxProbeSize) :
           probed([op |-> "win_length", size |-> n, win_length |-> wl,
                   game |-> init_win_length(n, wl),
                   main |-> _resolve_win_length(n, wl)])

NextCalls ==
    \/ depth_limit_call
    \/ win_length_call
    \/ get_move_no_moves_call
    \/ _evaluate_window_call
    \/ _evaluate_position_call

SpecCalls == InitCalls /\ [][NextCalls]_vars

(***************************************************************************)
(* The seeded random game: two RandomPlayers are created with fixed seeds  *)
(* and play_game is called on them, once per run.                          *)
(***************************************************************************)

\* Player.__init__(self, name, player_id) called with the positional
\* arguments args after self: Python raises TypeError unless they are two.
Player_init(args) ==
    IF Len(args) = 2
    THEN [raised |-> FALSE, name |-> args[1], player_id |-> args[2]]
    ELSE [raised |-> TRUE, name |-> None, player_id |-> None]

\* RandomPlayer(name, player_id, seed, win_length): line 21 hands name,
\* player_id and win_length to Player.__init__; what that call raises leaves
\* the constructor before line 23 seeds the generator.
RandomPlayer(name, player_id, seed, wl) ==
    LET base == Player_init(<<name, player_id, wl>>)
    IN IF base.raised
       THEN [raised |-> TRUE, player_id |-> None, seeded |-> None]
       ELSE [raised |-> FALSE, player_id |-> base.player_id, seeded |-> seed]

\* No run has been made.
InitRandom ==
    /\ TicTacToeGame(DefaultSize, MaxWin)
    /\ cw = <<>>
    /\ NoProbes
    /\ NoBooks
    /\ NoRunner
    /\ NoSearch

\* One run: RandomPlayer(player_id=-1, seed=seed1), RandomPlayer(player_id=1,
\* seed=seed2), then GameRunner(size=3, win_length=3).play_game on the two.
\* The first constructor raises, so the run ends there: no player exists, no
\* game is created, no move is made and no winner is returned.
seeded_run(seed1, seed2) ==
    /\ Len(runs) < MaxRuns
    /\ RandomPlayer("Random AI", -1, seed1, None).raised
    /\ runs' = Append(runs, [seeds |-> <<seed1, seed2>>, raised |-> TRUE,
                             moves |-> <<>>, winner |-> None])
    /\ UNCHANGED <<game, accepted, cw, runner, search, call, tour, books>>

NextRandom == \E seed1, seed2 \in 0 .. MaxSeed : seeded_run(seed1, seed2)

SpecRandom == InitRandom /\ [][NextRandom]_vars

(***************************************************************************)
(* GameRunner.play_tournament: its games are play_game calls, played by    *)
(* the actions turn and finish.                                            *)
(***************************************************************************)

\* The two arguments player1 and player2 of play_tournament, told apart by
\* the player_id they were built with (-1 and 1, as main builds them).
TournamentPlayer(id) == [AnyPlayer EXCEPT !.player_id = id]

\* p1_goes_first = (game_num % 2 == 0) (line 474)
p1_goes_first(game_num) == game_num % 2 = 0

\* Mutation of tournament_winner: the winner is not negated in the games
\* player2 starts.
tournament_winner_seat(first, w) == w

\* Lines 476-485: the value of `winner` after the play_game call that
\* returned w.
tournament_winner(first, w) == IF first THEN w ELSE (IF w # 0 THEN -w ELSE w)

\* The results dictionary of play_tournament (lines 449-454) with the loop
\* variable game_num, the ghost log of the games and, of every game, the
\* ghost number of moves that were applied in it.
play_tournament(num_games) ==
    [num_games |-> num_games, game_num |-> 0, player1_wins |-> 0,
     player2_wins |-> 0, draws |-> 0, log |-> <<>>, applied |-> <<>>]

\* GameStats.record_game(winner, moves, p1_went_first) (lines 41-44): the
\* three fields that hold the number of games and of moves.
GameStats_record_game(st, moves) ==
    [st EXCEPT !.games_played = @ + 1,
               !.total_moves = @ + moves,
               !.move_counts = Append(@, moves)]

\* getattr(self, '_last_game_moves', 0) (line 488)
getattr_last_game_moves == IF _last_game_moves = None THEN 0 ELSE _last_game_moves

\* play_tournament(player1, player2, num_games) on a new runner of a small
\* board, without heat map, up to the first test of its for loop (lines
\* 449-473); pc = "between" while no play_game call is running.
InitTournament ==
    /\ \E n \in 1 .. MaxTournamentSize, wl \in 1 .. MaxWin : TicTacToeGame(n, wl)
    /\ players = [p \in Players |-> TournamentPlayer(p)]
    /\ gm = <<>>
    /\ cw = <<>>
    /\ call = <<>>
    /\ runs = <<>>
    /\ \E num_games \in 0 .. MaxGames : tour = play_tournament(num_games)
    /\ move_history_for_heatmap = <<>>
    /\ heatmap = HeatMapGenerator(FALSE)
    /\ _last_game_moves = None
    /\ stats = GameStats
    /\ rr = <<>>
    /\ pc = "between"
    /\ timeout = 0
    /\ result = None
    /\ forfeit = "none"
    /\ elo_system = FALSE
    /\ notified = <<>>
    /\ elo_updates = <<>>

\* The for loop goes on (line 473): play_game is called with player1 first in
\* the even games and with player2 first in the odd ones (lines 476-483), and
\* runs up to the first test of its while loop (lines 252-257).
next_game ==
    /\ pc = "between"
    /\ tour.game_num < tour.num_games
    /\ players' = [p \in Players |->
                      [TournamentPlayer(IF p1_goes_first(tour.game_num) THEN p ELSE -p)
                          EXCEPT !.win_length = win_length]]
    /\ board' = zeros(size)
    /\ current_player' = -1
    /\ move_history' = <<>>
    /\ game_over' = FALSE
    /\ winner' = None
    /\ accepted' = <<>>
    /\ pc' = "loop"
    /\ result' = None
    /\ forfeit' = "none"
    /\ notified' = <<>>
    /\ elo_updates' = <<>>
    /\ move_history_for_heatmap' = <<>>
    /\ UNCHANGED <<size, win_length, timeout, elo_system, gm, cw, call, tour, runs,
                   heatmap, _last_game_moves, stats, rr>>

\* play_game has returned: lines 484-496 count the game. The log keeps, of
\* every game, the player that had the first move and the player play_game's
\* return value names (0: none); applied keeps the length of the game's
\* move_history.
record_game ==
    /\ pc = "done"
    /\ LET w == tournament_winner(p1_goes_first(tour.game_num), result)
       IN tour' = [tour EXCEPT
                      !.game_num = @ + 1,
                      !.player1_wins = IF w = -1 THEN @ + 1 ELSE @,
                      !.player2_wins = IF w = 1 THEN @ + 1 ELSE @,
                      !.draws = IF w # -1 /\ w # 1 THEN @ + 1 ELSE @,
                      !.log = Append(@, [first |-> players[-1].player_id,
                                         won |-> IF result \in Players
                                                 THEN players[result].player_id
                                                 ELSE 0]),
                      !.applied = Append(@, Len(move_history))]
    /\ stats' = GameStats_record_game(stats, getattr_last_game_moves)
    /\ pc' = "between"
    /\ UNCHANGED <<game, accepted, cw, timeout, result, forfeit, elo_system,
                   notified, elo_updates, search, call, runs,
                   move_history_for_heatmap, heatmap, _last_game_moves, rr>>

NextTournament ==
    \/ next_game
    \/ \E resp \in Responses(players[current_player], board_arg, valid_moves_arg) :
           turn(resp) /\ UNCHANGED <<cw, probes, stats, rr>>
    \/ \E h1, h2 \in {"return", "raise"} : finish(h1, h2) /\ UNCHANGED <<cw, probes, stats, rr>>
    \/ record_game

SpecTournament == InitTournament /\ [][NextTournament]_vars

(***************************************************************************)
(* GameRunner.play_round_robin_tournament: its matchups are play_tournament *)
(* calls, played by the actions of the tournament.                         *)
(***************************************************************************)

\* RoundRobinStats() (lines 116-119)
RoundRobinStats == [matchup_results |-> <<>>, player_totals |-> <<>>, total_games |-> 0]

\* Line 133: the totals a name gets when it is seen for the first time.
new_totals == [wins |-> 0, losses |-> 0, draws |-> 0, games |-> 0]

\* Mutation of add_totals: the games of the matchup are not added.
add_totals_no_games(t, w, l, d) ==
    [wins |-> t.wins + w, losses |-> t.losses + l, draws |-> t.draws + d,
     games |-> t.games]

\* Lines 135-138 (and 140-143): the results of a matchup added to the totals
\* of one of its players, who won w, lost l and drew d games.
add_totals(t, w, l, d) ==
    [wins |-> t.wins + w, losses |-> t.losses + l, draws |-> t.draws + d,
     games |-> t.games + w + l + d]

\* RoundRobinStats.record_matchup(p1_name, p2_name, p1_wins, p2_wins, draws)
\* (lines 121-143); the two dictionaries are functions of their keys.
RoundRobinStats_record_matchup(st, p1_name, p2_name, p1_wins, p2_wins, draws) ==
    LET key == <<p1_name, p2_name>>
        results == [k \in DOMAIN st.matchup_results \cup {key} |->
                       IF k = key
                       THEN [p1_wins |-> p1_wins, p2_wins |-> p2_wins, draws |-> draws]
                       ELSE st.matchup_results[k]]
        totals0 == [x \in DOMAIN st.player_totals \cup {p1_name, p2_name} |->
                       IF x \in DOMAIN st.player_totals
                       THEN st.player_totals[x] ELSE new_totals]
        totals1 == [totals0 EXCEPT ![p1_name] = add_totals(@, p1_wins, p2_wins, draws)]
        totals2 == [totals1 EXCEPT ![p2_name] = add_totals(@, p2_wins, p1_wins, draws)]
    IN [matchup_results |-> results,
        player_totals |-> totals2,
        total_games |-> st.total_games + (p1_wins + p2_wins + draws)]

\* itertools.combinations(range(1, n + 1), 2) in the order it yields them
\* (line 578): the pairs <<i, j>> with i < j, by i and then by j.
combinations(n) ==
    SelectSeq([x \in 1 .. n * n |-> <<((x - 1) \div n) + 1, ((x - 1) % n) + 1>>],
              LAMBDA pair : pair[1] < pair[2])

\* play_round_robin_tournament(participants_config, games_per_matchup,
\* create_player_func) on a runner of a 1 x 1 board, up to the first test of
\* its for loop (lines 552-577). names[i] is the name create_player_func gives
\* the player of participant i; pending holds the pairings the loop has still
\* to yield, matchup the pairing being played (<<0, 0>>: none), and played is
\* the ghost list of the play_tournament calls: their pairing and the number
\* of games they played. tour is the play_tournament call of the matchup;
\* before the first one it is a call that has nothing to play.
InitRoundRobin ==
    /\ \E wl \in 1 .. MaxRoundRobinWin : TicTacToeGame(1, wl)
    /\ players = [p \in Players |-> TournamentPlayer(p)]
    /\ gm = <<>>
    /\ cw = <<>>
    /\ call = <<>>
    /\ runs = <<>>
    /\ tour = play_tournament(0)
    /\ move_history_for_heatmap = <<>>
    /\ heatmap = HeatMapGenerator(FALSE)
    /\ _last_game_moves = None
    /\ stats = GameStats
    /\ \E n \in 0 .. MaxParticipants, g \in 1 .. MaxGamesPerMatchup :
           \E names \in [1 .. n -> 1 .. MaxNames] :
               rr = [names |-> names, games_per_matchup |-> g,
                     pending |-> combinations(n), matchup |-> <<0, 0>>,
                     played |-> <<>>, rr_stats |-> RoundRobinStats]
    /\ pc = "between"
    /\ timeout = 0
    /\ result = None
    /\ forfeit = "none"
    /\ elo_system = FALSE
    /\ notified = <<>>
    /\ elo_updates = <<>>

\* The for loop yields the next pairing (line 578) and play_tournament is
\* called for it (lines 589-593), up to the first test of its own loop.
next_matchup ==
    /\ rr.matchup = <<0, 0>>
    /\ rr.pending # <<>>
    /\ pc = "between"
    /\ rr' = [rr EXCEPT !.matchup = Head(rr.pending), !.pending = Tail(rr.pending)]
    /\ tour' = play_tournament(rr.games_per_matchup)
    /\ stats' = GameStats
    /\ UNCHANGED <<game, accepted, cw, runner, search, call, runs,
                   move_history_for_heatmap, heatmap, _last_game_moves>>

\* play_tournament has returned its results: lines 596-599 record them under
\* the names of the two players.
record_matchup ==
    /\ rr.matchup # <<0, 0>>
    /\ pc = "between"
    /\ tour.game_num = tour.num_games
    /\ rr' = [rr EXCEPT
                 !.matchup = <<0, 0>>,
                 !.played = Append(@, <<rr.matchup, tour.game_num>>),
                 !.rr_stats = RoundRobinStats_record_matchup(
                                  @, rr.names[rr.matchup[1]], rr.names[rr.matchup[2]],
                                  tour.player1_wins, tour.player2_wins, tour.draws)]
    /\ UNCHANGED <<game, accepted, cw, runner, search, probes,
                   move_history_for_heatmap, heatmap, _last_game_moves, stats>>

NextRoundRobin ==
    \/ next_matchup
    \/ next_game
    \/ \E resp \in Responses(players[current_player], board_arg, valid_moves_arg) :
           turn(resp) /\ UNCHANGED <<cw, probes, stats, rr>>
    \/ \E h1, h2 \in {"return", "raise"} : finish(h1, h2) /\ UNCHANGED <<cw, probes, stats, rr>>
    \/ record_game
    \/ record_matchup

SpecRoundRobin == InitRoundRobin /\ [][NextRoundRobin]_vars

(***************************************************************************)
(* Vocabulary of the properties.                                           *)
(***************************************************************************)
Directions == {<<0, 1>>, <<1, 0>>, <<1, 1>>, <<1, -1>>}

\* Cell (row, col) of b lies in k consecutive cells of one line (horizontal,
\* vertical or diagonal) that are all on the board and all hold b[row, col].
InRun(b, n, k, row, col) ==
    \E d \in Directions : \E s \in 0 .. k - 1 : \A i \in 0 .. k - 1 :
        LET r == row + (i - s) * d[1]
            c == col + (i - s) * d[2]
        IN InBounds(n, r, c) /\ b[<<r, c>>] = b[<<row, col>>]

Full(b, n) == \A m \in Cells(n) : b[m] # 0

Last(h) == h[Len(h)]

\* The last move of move_history completed a line of its player.
LastMoveWon ==
    /\ move_history # <<>>
    /\ board[<<Last(move_history)[1], Last(move_history)[2]>>] = Last(move_history)[3]
    /\ InRun(board, size, win_length, Last(move_history)[1], Last(move_history)[2])

\* _save_game_log, lines 391-399: the moves of h put on an empty board in order.
RECURSIVE Replay(_, _)
Replay(h, n) ==
    IF h = <<>> THEN zeros(n)
    ELSE LET m == Last(h)
         IN [Replay(SubSeq(h, 1, Len(h) - 1), n) EXCEPT ![<<m[1], m[2]>>] = m[3]]

\* A 3 x 3 board holding player -1 on the first j cells of row 0 and nothing else.
Row0(j) == [m \in Cells(3) |-> IF m[1] = 0 /\ m[2] < j THEN -1 ELSE 0]

\* C1: on every board and for every non-empty cell, _check_win(row, col) is
\* true exactly when the cell lies in a run of at least win_length cells of its
\* own value along a row, a column or a diagonal; on the 3 x 3 board with
\* win_length 3 it is false at (0,0) and at (0,1) after -1 took (0,0), (0,1),
\* and true at (0,2) once -1 also holds (0,2).
C1_CheckWinIffRun ==
    cw # <<>> =>
        /\ board[<<cw[1], cw[2]>>] # 0 =>
               (cw[3] <=> InRun(board, size, win_length, cw[1], cw[2]))
        /\ (size = 3 /\ win_length = 3 /\ board = Row0(1) /\ cw[1] = 0 /\ cw[2] = 0)
               => cw[3] = FALSE
        /\ (size = 3 /\ win_length = 3 /\ board = Row0(2) /\ cw[1] = 0 /\ cw[2] = 1)
               => cw[3] = FALSE
        /\ (size = 3 /\ win_length = 3 /\ board = Row0(3) /\ cw[1] = 0 /\ cw[2] = 2)
               => cw[3] = TRUE

C1_Witness ==
    /\ size = 3 /\ win_length = 3 /\ board = Row0(3)
    /\ cw = <<0, 2, TRUE>>

\* C2: a make_move call whose target is out of bounds (negative indices
\* included) or already occupied returns False and changes nothing of the game.
C2_InvalidMoveRejected ==
    \A row \in Args(size), col \in Args(size) :
        (~InBounds(size, row, col) \/ board[<<row, col>>] # 0) =>
            /\ make_move_ret(row, col) = FALSE
            /\ ~ENABLED (make_move(row, col) /\ game' # game)

\* The game is on, some cells are taken, and calls on a taken cell and on cells
\* off each edge of the board happen and leave the state as it is.
C2_Witness ==
    /\ ~game_over /\ size = 3 /\ Len(move_history) = 4
    /\ \E m \in Cells(size) :
           board[m] # 0 /\ ENABLED (make_move(m[1], m[2]) /\ UNCHANGED <<game, accepted>>)
    /\ ENABLED (make_move(-1, 0) /\ UNCHANGED <<game, accepted>>)
    /\ ENABLED (make_move(0, size) /\ UNCHANGED <<game, accepted>>)

\* C3: game_over holds exactly when the last move of move_history completed a
\* line of at least win_length cells of its player or the board has no empty cell.
C3_GameOverIffWonOrFull ==
    game_over <=> (LastMoveWon \/ Full(board, size))

C3_Witness ==
    /\ game_over /\ size = 3 /\ win_length = 3
    /\ Full(board, size) /\ ~LastMoveWon

\* C4: once game_over is true, every make_move call, whatever its arguments,
\* returns False and changes nothing of the game (game_over stays true).
C4_NoMoveAfterGameOver ==
    game_over =>
        \A row \in Args(size), col \in Args(size) :
            /\ make_move_ret(row, col) = FALSE
            /\ ~ENABLED (make_move(row, col) /\ game' # game)

\* The game is over with an empty in-bounds cell left, and a call on it happens.
C4_Witness ==
    /\ game_over /\ size = 3 /\ win_length = 3
    /\ \E m \in Cells(size) :
           board[m] = 0 /\ ENABLED (make_move(m[1], m[2]) /\ UNCHANGED <<game, accepted>>)

\* C5: a make_move call on an in-bounds empty cell of a game that is not over
\* returns True, sets exactly that cell to the player to move, appends
\* (row, col, that player) to move_history and leaves every other cell, size
\* and win_length as they were.
C5_SuccessfulMoveFrame ==
    \A row \in Args(size), col \in Args(size) :
        (~game_over /\ InBounds(size, row, col) /\ board[<<row, col>>] = 0) =>
            /\ make_move_ret(row, col) = TRUE
            /\ ~ENABLED (make_move(row, col) /\
                   ~(/\ board'[<<row, col>>] = current_player
                     /\ \A m \in Cells(size) : m # <<row, col>> => board'[m] = board[m]
                     /\ DOMAIN board' = DOMAIN board
                     /\ Len(move_history') = Len(move_history) + 1
                     /\ Last(move_history') = <<row, col, current_player>>
                     /\ SubSeq(move_history', 1, Len(move_history)) = move_history
                     /\ size' = size /\ win_length' = win_length))

\* Two moves were made and a third, on an empty cell, is about to be.
C5_Witness ==
    /\ ~game_over /\ size = 3 /\ Len(move_history) = 2
    /\ board[<<1, 1>>] = -1 /\ board[<<0, 2>>] = 1
    /\ make_move_ret(2, 0) /\ ENABLED (make_move(2, 0) /\ board'[<<2, 0>>] = -1)

\* C6 as stated: after every call that returned True, current_player is the
\* negation of what it was before the call, that is, of the player recorded
\* in the last entry of move_history.
C6_AlternatesAfterEveryMove ==
    move_history # <<>> => current_player = -Last(move_history)[3]

\* C6 amended: whenever make_move returns True, current_player is negated if
\* the game goes on, and is left as it was (the player of the last move) if
\* the move ended the game.
C6_AlternatesWhileGameGoesOn ==
    \A row \in Args(size), col \in Args(size) :
        make_move_ret(row, col) =>
            ~ENABLED (make_move(row, col) /\
                ~(IF game_over' THEN current_player' = current_player
                                ELSE current_player' = -current_player))

\* Both kinds of accepted move are about to be made: one that ends the game
\* and one after which it goes on.
C6_Witness ==
    /\ size = 3 /\ win_length = 3 /\ ~game_over
    /\ \E m \in Cells(size) :
           make_move_ret(m[1], m[2]) /\ ENABLED (make_move(m[1], m[2]) /\ game_over')
    /\ \E m \in Cells(size) :
           make_move_ret(m[1], m[2]) /\ ENABLED (make_move(m[1], m[2]) /\ ~game_over')

\* C7: get_valid_moves() holds exactly the empty cells, each once, and after N
\* calls that returned True it has size * size - N entries.
C7_ValidMovesAreEmptyCells ==
    LET vm == get_valid_moves(board, size)
    IN /\ {vm[i] : i \in 1 .. Len(vm)} = {m \in Cells(size) : board[m] = 0}
       /\ \A i, j \in 1 .. Len(vm) : vm[i] = vm[j] => i = j
       /\ Len(vm) = size * size - Len(accepted)

C7_Witness ==
    /\ size = 3 /\ Len(accepted) = 4
    /\ Len(get_valid_moves(board, size)) = 5

\* C8: move_history is the sequence of (row, col, player) of the calls that
\* returned True, in call order; a call that returns True appends its entry, a
\* rejected call leaves the history as it is, and the history replayed on an
\* empty board gives the current board.
C8_HistoryCompleteInOrder ==
    /\ move_history = accepted
    /\ Replay(move_history, size) = board
    /\ \A row \in Args(size), col \in Args(size) :
           ~ENABLED (make_move(row, col) /\
               ~(IF make_move_ret(row, col)
                 THEN move_history' = Append(move_history, <<row, col, current_player>>)
                 ELSE move_history' = move_history))

C8_Witness ==
    /\ size = 3 /\ game_over /\ Len(move_history) = 9
    /\ \A i \in 1 .. 9 : move_history[i][3] = (IF i % 2 = 1 THEN -1 ELSE 1)

\* C9: winner is None exactly while game_over is false; once the game is over
\* it is the player of the last move if that move completed a line, and 0
\* otherwise.
C9_WinnerMatchesOutcome ==
    /\ winner = None <=> ~game_over
    /\ game_over =>
           winner = IF LastMoveWon THEN Last(move_history)[3] ELSE 0

C9_Witness ==
    /\ game_over /\ Full(board, size) /\ LastMoveWon
    /\ size = 3 /\ winner = -1

\* A response that the claim counts as a forfeit, BaseExceptions left aside:
\* a malformed or non-integer answer, an Exception (the ValueError of a write
\* to the view included), an answer that took longer than the timeout, or
\* coordinates that make_move rejects.
Offending(resp) ==
    \/ resp.kind \in {"malformed", "nonint", "raise", "write"}
    \/ /\ resp.kind = "move"
       /\ \/ timeout # 0 /\ resp.elapsed > timeout
          \/ ~InBounds(size, resp.row, resp.col)
          \/ board[<<resp.row, resp.col>>] # 0

\* play_game answers resp by returning the side token of the opponent of the
\* player to move, with the game left as it was.
ForfeitsOn(resp) ==
    /\ ENABLED turn(resp)
    /\ ~ENABLED (turn(resp) /\
           ~(/\ pc' = "done"
             /\ result' = -current_player
             /\ result' \in Players
             /\ game' = game))

\* C10 as stated: whenever get_move returns something that is no pair of
\* integers, returns coordinates make_move rejects, raises any exception or
\* overruns the timeout, play_game does not raise and returns the opponent's
\* side token, and the move is not applied.
C10_ForfeitOnAnyException ==
    /\ pc # "raised"
    /\ (pc = "loop" /\ ~game_over) =>
           \A resp \in Responses(players[current_player], board_arg, valid_moves_arg) :
               (Offending(resp) \/ resp.kind = "raise_base") => ForfeitsOn(resp)

\* C10 amended: the same for an exception that is an instance of Exception;
\* and a game that ended by forfeit has returned the opponent of the player
\* who was to move.
C10_ForfeitOnBadMove ==
    /\ (pc = "loop" /\ ~game_over) =>
           \A resp \in Responses(players[current_player], board_arg, valid_moves_arg) :
               Offending(resp) => ForfeitsOn(resp)
    /\ (pc = "done" /\ forfeit # "none") =>
           /\ result = -current_player
           /\ ~game_over /\ winner = None
           /\ Replay(move_history, size) = board

\* Three moves were applied and player 2 answered the fourth turn with a move
\* make_move rejects: player 1 is returned.
C10_Witness ==
    /\ pc = "done" /\ forfeit = "invalid" /\ result = -1
    /\ size = 3 /\ Len(move_history) = 3 /\ current_player = 1

\* The sides whose game_over hook was invoked with w.
NotifiedOf(w) == {notified[i][1] : i \in {j \in 1 .. Len(notified) : notified[j][2] = w}}

\* C11: a game that play_game ended by forfeit has had the game_over hook of
\* both players invoked with the returned winner and, when an elo_system was
\* given, exactly one update, with 1 if player 1 won and -1 if player 2 won.
C11_ForfeitRecordedLikeLoss ==
    (pc = "done" /\ forfeit # "none") =>
        /\ NotifiedOf(result) = Players
        /\ elo_system => elo_updates = <<elo_result(result)>>

C13_HookFailureHarmless ==
    (pc \in {"done", "hook_raised"} /\ forfeit = "none") =>
        /\ pc = "done"
        /\ result = winner
        /\ NotifiedOf(winner) = Players

Range(f) == {f[i] : i \in DOMAIN f}
MaxOf(f) == CHOOSE x \in Range(f) : \A y \in Range(f) : x >= y
MinOf(f) == CHOOSE x \in Range(f) : \A y \in Range(f) : x <= y

\* The first index at which f takes its greatest value.
FirstMax(f) == CHOOSE i \in DOMAIN f : f[i] = MaxOf(f) /\ \A j \in 1 .. i - 1 : f[j] < f[i]

\* Minimax without pruning: every move of every node is tried, with the
\* terminal test, the evaluator, the depth limit and the move order of _minimax.
RECURSIVE Exhaustive(_, _, _, _, _, _, _)
Exhaustive(player_id, n, k, b, depth, is_maximizing, max_depth) ==
    LET w == _check_winner(b, n, k)
    IN IF w # None THEN terminal_score(w, player_id, depth)
       ELSE IF depth >= max_depth THEN _evaluate_position(b, n, k, player_id)
       ELSE LET valid_moves == get_valid_moves(b, n)
                evals == [i \in 1 .. Len(valid_moves) |->
                             Exhaustive(player_id, n, k,
                                 place(b, valid_moves[i][1], valid_moves[i][2],
                                       IF is_maximizing THEN player_id ELSE -player_id),
                                 depth + 1, ~is_maximizing, max_depth)]
            IN IF valid_moves = <<>> THEN 0
               ELSE IF is_maximizing THEN MaxOf(evals) ELSE MinOf(evals)

\* The score Exhaustive gives each move of the last get_move call.
ExhaustiveScores ==
    LET self == gm.self_after
    IN [i \in 1 .. Len(gm.valid_moves) |->
           Exhaustive(self.player_id, self.board_size, self.win_length,
                      place(gm.board, gm.valid_moves[i][1], gm.valid_moves[i][2],
                            self.player_id),
                      0, FALSE, depth_limit(self.max_depth, self.board_size))]

\* C14: the score _minimax gave each root move of a get_move call is the score
\* of the minimax without pruning, and the move returned is the first move of
\* greatest unpruned score.
C14_PruningKeepsAnswer ==
    gm # <<>> =>
        /\ gm.scores = ExhaustiveScores
        /\ gm.move = gm.valid_moves[FirstMax(ExhaustiveScores)]

\* An unlimited search on a 3 x 3 board with five empty cells, and a search
\* of depth limit 2, each of which left loops by the break.
C14_Witness ==
    /\ gm # <<>> /\ size = 3 /\ gm.cuts > 1
    /\ \/ gm.self.max_depth = None /\ empty_count(gm.board, size) = 5
       \/ gm.self.max_depth = 2 /\ empty_count(gm.board, size) = 7

\* The moves of the last get_move call that complete a line of win_length
\* cells of the asked player on the game's board.
WinningMoves ==
    {m \in Range(gm.valid_moves) :
        InRun(place(gm.board, m[1], m[2], gm.self.player_id), size, win_length,
              m[1], m[2])}

\* C15: whenever some valid move completes a line of win_length cells of the
\* asked player, get_move returns a move that completes such a line.
C15_TakesWinningMove ==
    (gm # <<>> /\ WinningMoves # {}) => gm.move \in WinningMoves

\* The first mover has player_id -1, the second 1, and neither has a depth limit.
UnlimitedPair ==
    \A p \in Players :
        /\ players[p].kind = "minimax"
        /\ players[p].player_id = p
        /\ players[p].max_depth = None

\* C16: on the 3 x 3 board with win length 3, two MinimaxPlayers without depth
\* limit that are asked in turn always have a move to make until the game is
\* over (a free cell is left, and the move get_move returned was one of the
\* valid moves and was accepted by make_move), and the game is over with
\* winner 0.
C16_OptimalPlayDraws ==
    (size = 3 /\ win_length = 3 /\ UnlimitedPair) =>
        /\ ~game_over => get_valid_moves(board, size) # <<>>
        /\ gm # <<>> => /\ gm.move \in Range(gm.valid_moves)
                        /\ accepted # <<>>
                        /\ Last(accepted) = <<gm.move[1], gm.move[2], gm.self.player_id>>
                        /\ board[<<gm.move[1], gm.move[2]>>] = gm.self.player_id
        /\ game_over => winner = 0

C16_Witness ==
    /\ size = 3 /\ win_length = 3 /\ UnlimitedPair
    /\ game_over /\ winner = 0 /\ Len(move_history) = 9

\* C17: play_game on the 3 x 3 board with win length 3 between two
\* MinimaxPlayers without depth limit, in either order, returns 0.
C17_MinimaxGameIsDraw ==
    (/\ pc = "done" /\ size = 3 /\ win_length = 3
     /\ \A p \in Players : players[p].kind = "minimax" /\ players[p].max_depth = None)
        => result = 0

\* C18: when get_move returns, the array it searched on is cell for cell what
\* it was when the call began, and so it was at the return of every _minimax
\* frame of the call, those left by a break, at a decided position or at the
\* depth limit included.
C18_SearchRestoresBoard ==
    gm # <<>> =>
        /\ gm.ok
        /\ gm.after = gm.board
        /\ board = gm.board

\* A search of depth limit 2 from the empty 3 x 3 board in which loops were
\* left by the break and frames returned at the depth limit.
C18_Witness ==
    /\ gm # <<>> /\ size = 3 /\ gm.cuts > 0
    /\ gm.self.max_depth = 2 /\ empty_count(gm.board, size) = 9

\* C19: the move get_move returns on a player object, whatever earlier calls
\* left in it, is the move a new player object of the same player_id and
\* max_depth returns for the same board and valid_moves.
C19_SameInputsSameMove ==
    gm # <<>> =>
        gm.move = get_move(MinimaxPlayer(gm.self.player_id, gm.self.max_depth),
                           gm.board, size, gm.valid_moves).move

\* The object had been asked on a board of another size before.
C19_Witness ==
    /\ gm # <<>> /\ size = 3 /\ empty_count(gm.board, size) = 3
    /\ gm.self.board_size = 2 /\ gm.self.win_length = 2
    /\ gm.self_after.board_size = 3 /\ gm.self_after.win_length = 3

\* C20: get_move returns the first move of valid_moves whose score is the
\* greatest of the scores _minimax gave the moves.
C20_FirstBestMove ==
    gm # <<>> =>
        /\ Len(gm.scores) = Len(gm.valid_moves)
        /\ gm.move = gm.valid_moves[FirstMax(gm.scores)]

\* Several moves share the greatest score, the first move of valid_moves is
\* not among them, and the first of them was returned.
C20_Witness ==
    /\ gm # <<>> /\ size = 3
    /\ Cardinality({i \in DOMAIN gm.scores : gm.scores[i] = MaxOf(gm.scores)}) > 1
    /\ gm.scores[1] < MaxOf(gm.scores)
    /\ gm.move = gm.valid_moves[FirstMax(gm.scores)]

\* The array _minimax is called on for move i of a get_move call (line 62).
RootNode(i) ==
    place(gm.board, gm.valid_moves[i][1], gm.valid_moves[i][2], gm.self.player_id)

\* C21: at every search node, here the nodes get_move calls _minimax on at
\* depth 0, _minimax returns 1000 - depth when the searching player has a line
\* of the win length of the search, -(1000 - depth) when the opponent has one,
\* 0 when the board is full with no line, and the score of _evaluate_position
\* when none of these holds and depth has reached the depth limit.
C21_TerminalTestBeforeCutoff ==
    gm # <<>> =>
        \A i \in DOMAIN gm.valid_moves :
            LET node == RootNode(i)
                k == gm.self_after.win_length
                player_id == gm.self.player_id
                mine == _has_won(node, size, k, player_id)
                theirs == _has_won(node, size, k, -player_id)
            IN /\ mine => gm.scores[i] = 1000 - 0
               /\ theirs => gm.scores[i] = -(1000 - 0)
               /\ (~mine /\ ~theirs /\ Full(node, size)) => gm.scores[i] = 0
               /\ (~mine /\ ~theirs /\ ~Full(node, size)
                     /\ 0 >= depth_limit(gm.self.max_depth, size))
                      => gm.scores[i] = _evaluate_position(node, size, k, player_id)

\* C22: a get_move call of a player built without max_depth searches without
\* depth limit on boards of size up to 3, with limit 6 on boards of size 4 and
\* 5 and with limit 3 on larger boards; a player built with a max_depth, 0
\* included, searches with that limit on every board.
C22_DepthLimitPolicy ==
    (call # <<>> /\ call.op = "depth_limit") =>
        /\ (call.max_depth = None /\ call.board_size <= 3) => call.ret = inf
        /\ (call.max_depth = None /\ call.board_size \in {4, 5}) => call.ret = 6
        /\ (call.max_depth = None /\ call.board_size > 5) => call.ret = 3
        /\ call.max_depth # None => call.ret = call.max_depth

\* A player built with max_depth = 0 is asked on a 3 x 3 board.
C22_Witness ==
    /\ call # <<>> /\ call.op = "depth_limit"
    /\ call.max_depth = 0 /\ call.board_size = 3 /\ call.ret = 0

\* C23: MinimaxPlayer.get_move called with an empty valid_moves raises
\* instead of returning a move, and leaves the array it was handed, and the
\* player object, as they were.
C23_NoMovesRaises ==
    (call # <<>> /\ call.op = "get_move" /\ call.valid_moves = <<>>) =>
        /\ call.raised
        /\ call.move = None
        /\ call.after = call.board
        /\ call.self_after = call.self

\* The call on a full 2 x 2 array.
C23_Witness ==
    /\ call # <<>> /\ call.op = "get_move" /\ call.valid_moves = <<>>
    /\ call.board = [m \in Cells(2) |-> IF m[1] = m[2] THEN -1 ELSE 1]
    /\ call.raised

\* C24: the move MinimaxPlayer.get_move returns, and the move
\* RandomPlayer.get_move returns, for a non-empty valid_moves is an element of
\* valid_moves.
C24_MoveFromValidMoves ==
    /\ gm # <<>> =>
           /\ gm.valid_moves # <<>>
           /\ gm.move \in Range(gm.valid_moves)
    /\ (call # <<>> /\ call.op = "RandomPlayer.get_move") =>
           /\ call.valid_moves # <<>>
           /\ call.move \in Range(call.valid_moves)

\* A RandomPlayer asked on a 3 x 3 board with four empty cells returned the
\* third of the four moves.
C24_Witness ==
    /\ call # <<>> /\ call.op = "RandomPlayer.get_move"
    /\ size = 3 /\ Len(call.valid_moves) = 4
    /\ call.move = call.valid_moves[3]

\* C25: on every board, the score _evaluate_position gives a player is the
\* negation of the score it gives the other player.
C25_EvaluationZeroSum ==
    (call # <<>> /\ call.op = "_evaluate_position") =>
        call.ret = -_evaluate_position(call.board, call.board_size, call.win_length,
                                       -call.player_id)

\* A 3 x 3 board with marks of both sides that scores above 0 for player 1.
C25_Witness ==
    /\ call # <<>> /\ call.op = "_evaluate_position"
    /\ call.board_size = 3 /\ call.win_length = 3 /\ call.player_id = 1
    /\ \E m \in Cells(3) : call.board[m] = -1
    /\ call.ret > 0

\* The windows of k cells without a cell of the opponent of player.
Unblocked(k, player) == [1 .. k -> {0, player}]

\* What the claim says of the value of one window: 0 with a cell of the
\* opponent in it; otherwise 10, the greatest value of a window that is no
\* complete line, for win_length - 1 pieces and one empty cell, 5, the next,
\* for win_length - 2 pieces and two empty cells, and the number of pieces for
\* any other window.
WindowValue ==
    LET k == call.win_length
        player_count == Count(call.window, call.player)
    IN /\ Count(call.window, -call.player) > 0 => call.ret = 0
       /\ Count(call.window, -call.player) = 0 =>
              /\ player_count = k - 1 => call.ret = 10
              /\ player_count = k - 2 => call.ret = 5
              /\ player_count \notin {k - 1, k - 2} => call.ret = player_count
              /\ player_count < k => call.ret <= 10
              /\ player_count < k - 1 => call.ret <= 5
              /\ player_count < k - 2 => call.ret < 5

\* C26 as stated: the value of a window is as WindowValue says, and no
\* unblocked window with at least as many pieces of the player has a smaller
\* value.
C26_WindowValueMonotone ==
    (call # <<>> /\ call.op = "_evaluate_window") =>
        /\ WindowValue
        /\ Count(call.window, -call.player) = 0 =>
               \A w \in Unblocked(call.win_length, call.player) :
                   Count(w, call.player) >= Count(call.window, call.player)
                       => _evaluate_window(w, call.win_length, call.player) >= call.ret

\* C26, amended: the value of a window is as WindowValue says, and no
\* unblocked window that is no complete line and has at least as many pieces
\* of the player has a smaller value; the complete line has the value
\* win_length, below the value of win_length - 1 pieces.
C26_WindowValueMonotoneBelowLine ==
    (call # <<>> /\ call.op = "_evaluate_window") =>
        /\ WindowValue
        /\ Count(call.window, -call.player) = 0 =>
               \A w \in Unblocked(call.win_length, call.player) :
                   /\ (Count(w, call.player) >= Count(call.window, call.player)
                         /\ Count(w, call.player) < call.win_length)
                          => _evaluate_window(w, call.win_length, call.player) >= call.ret
                   /\ Count(w, call.player) = call.win_length
                          => /\ _evaluate_window(w, call.win_length, call.player)
                                    = call.win_length
                             /\ call.win_length < 10

\* A window of five cells with three pieces of the player and two empty cells.
C26_Witness ==
    /\ call # <<>> /\ call.op = "_evaluate_window"
    /\ call.win_length = 5 /\ call.player = 1
    /\ call.window = <<1, 0, 1, 1, 0>>
    /\ call.ret = 5

\* C27: every run of the 3 x 3 game with win length 3 between two
\* RandomPlayers created with fixed seeds makes moves and returns a winner,
\* and two runs with the same seeds make the same moves and return the same
\* winner.
C27_SeededRunsRepeat ==
    \A i, j \in DOMAIN runs :
        runs[i].seeds = runs[j].seeds =>
            /\ ~runs[i].raised
            /\ runs[i].moves # <<>>
            /\ runs[i].winner \in {-1, 0, 1}
            /\ runs[i].moves = runs[j].moves
            /\ runs[i].winner = runs[j].winner

\* C28: in a game whose win length exceeds its size no move sets winner to -1
\* or 1: the game is over exactly when the board is full, and then winner is 0.
C28_LongWinLengthOnlyDraws ==
    win_length > size =>
        /\ winner \in {None, 0}
        /\ game_over <=> Full(board, size)
        /\ game_over <=> winner = 0
        /\ game_over => Len(move_history) = size * size

\* The 2 x 2 game with win length 3 after its fourth move.
C28_Witness ==
    /\ size = 2 /\ win_length = 3
    /\ game_over /\ winner = 0 /\ Len(move_history) = 4

\* size if size <= 5 else 5
DefaultWinLength(n) == IF n <= 5 THEN n ELSE 5

\* C29 as stated: the win length of a game is the win_length argument when
\* one is given, and otherwise size on boards of size up to 5 and 5 on larger
\* boards; main._resolve_win_length computes the same value.
C29_WinLengthAsSupplied ==
    (call # <<>> /\ call.op = "win_length") =>
        /\ call.win_length # None => call.game = call.win_length
        /\ call.win_length = None => call.game = DefaultWinLength(call.size)
        /\ call.main = call.game

\* C29, amended: the win length of a game is the win_length argument when
\* one other than 0 is given, and otherwise (None or 0) size on boards of size
\* up to 5 and 5 on larger boards; main._resolve_win_length computes the same
\* value.
C29_WinLengthUnlessFalsy ==
    (call # <<>> /\ call.op = "win_length") =>
        /\ (call.win_length # None /\ call.win_length # 0)
               => call.game = call.win_length
        /\ (call.win_length = None \/ call.win_length = 0)
               => call.game = DefaultWinLength(call.size)
        /\ call.main = call.game

\* A 7 x 7 game built with win_length = 0 has win length 5.
C29_Witness ==
    /\ call # <<>> /\ call.op = "win_length"
    /\ call.size = 7 /\ call.win_length = 0
    /\ call.game = 5 /\ call.main = 5

\* The number of games of the log that player id won (0: that nobody won).
Won(id) == Cardinality({i \in DOMAIN tour.log : tour.log[i].won = id})

\* C30: game number i of a tournament (from 0) is started by player1 when i
\* is even and by player2 when i is odd; the counters hold, for each player,
\* the games that player won on either side, and the other games as draws;
\* when the loop is left the three counters add up to num_games.
C30_TournamentAlternatesAndCredits ==
    tour # <<>> =>
        /\ \A i \in DOMAIN tour.log :
               tour.log[i].first = IF (i - 1) % 2 = 0 THEN -1 ELSE 1
        /\ pc = "loop" =>
               players[-1].player_id = IF tour.game_num % 2 = 0 THEN -1 ELSE 1
        /\ Len(tour.log) = tour.game_num
        /\ tour.player1_wins = Won(-1)
        /\ tour.player2_wins = Won(1)
        /\ tour.draws = Won(0)
        /\ (pc = "between" /\ tour.game_num = tour.num_games) =>
               tour.player1_wins + tour.player2_wins + tour.draws = tour.num_games

\* A finished tournament of three games: player2 started the second game and
\* won it, and player1 won a game it started.
C30_Witness ==
    /\ tour # <<>> /\ pc = "between"
    /\ tour.num_games = 3 /\ tour.game_num = 3
    /\ tour.log[2] = [first |-> 1, won |-> 1]
    /\ tour.log[1] = [first |-> -1, won |-> -1]
    /\ tour.player1_wins + tour.player2_wins + tour.draws = 3

\* C31: while play_game runs a game, a MinimaxPlayer that has been asked for
\* a move searches with the win length of the game, the one lines 256-257
\* assigned to it before the first turn.
C31_SearchUsesGameWinLength ==
    pc # "idle" =>
        \A p \in Players :
            (players[p].kind = "minimax" /\ players[p].board_size # None)
                => players[p].win_length = win_length

\* What record_move is to be told about a move of player p once the game is
\* over: "True" when p won, "False" when the other player won, "None" on a
\* draw.
Credit(p) == IF winner = 0 THEN "None" ELSE IF winner = p THEN "True" ELSE "False"

\* C32: the i-th record_move call of a game is made for the i-th applied move:
\* it carries the cell of that move, the id of the player who placed it, and
\* is_winning according to whether that player won, lost or drew.
C32_HeatMapCreditsMover ==
    \A i \in DOMAIN heatmap.calls :
        /\ i \in DOMAIN move_history
        /\ heatmap.calls[i] = <<move_history[i][1], move_history[i][2],
                                move_history[i][3], Credit(move_history[i][3])>>

\* The sum of the numbers of a sequence.
Sum(seq) == SumTo(seq, Len(seq))

\* C33: the move count that play_tournament records in GameStats for a game
\* is the number of moves applied in that game, forfeited games included, and
\* total_moves is the sum of the recorded move counts.
C33_MoveCountsAreApplied ==
    tour # <<>> =>
        /\ stats.move_counts = tour.applied
        /\ stats.games_played = tour.game_num
        /\ stats.total_moves = Sum(stats.move_counts)

\* play_game answers the move resp by applying it for the player to move and
\* going on, without forfeit.
AppliesMove(resp) ==
    /\ ENABLED turn(resp)
    /\ ~ENABLED (turn(resp) /\
           ~(/\ move_history' = Append(move_history, <<resp.row, resp.col, current_player>>)
             /\ board' = [board EXCEPT ![<<resp.row, resp.col>>] = current_player]
             /\ pc' = "loop"
             /\ forfeit' = "none"))

\* While both players answer with valid moves in time, no game is forfeited,
\* at most size * size moves are applied, every move returned is applied,
\* and what play_game returns is the winner of the engine, -1, 1 or 0.
ValidGameRuns ==
    /\ forfeit = "none"
    /\ pc \in {"loop", "done", "hook_raised"}
    /\ Len(move_history) <= size * size
    /\ (pc = "loop" /\ ~game_over) =>
           \A resp \in ValidResponses(valid_moves_arg) : AppliesMove(resp)
    /\ (pc = "loop" /\ game_over) => winner \in {-1, 0, 1}
    /\ pc = "done" =>
           /\ game_over
           /\ result = winner
           /\ result \in {-1, 0, 1}

\* C34: a game of play_game in which both players always return one of the
\* valid moves they were handed, within the timeout, comes to an end after at
\* most size * size applied moves, has every returned move applied, and
\* returns the winner of the engine, which is -1, 1 or 0.
C34_ValidGameTerminates == []ValidGameRuns /\ <>(pc # "loop")

\* A 2 x 2 game with a timeout and win length 3 that was played to the last
\* cell and returned a draw.
C34_Witness ==
    /\ pc = "done" /\ forfeit = "none" /\ timeout # 0
    /\ size = 2 /\ Len(move_history) = size * size /\ result = 0

\* C35: in every state of a game played by make_move, the whole-board test of
\* a search whose win length is the game's gives the winner of the engine
\* (-1, 1 or 0) when the game is over, and None while it is going on.
C35_CheckWinnerAgreesWithEngine ==
    /\ game_over => winner \in {-1, 0, 1}
    /\ _check_winner(board, size, win_length) = IF game_over THEN winner ELSE None

\* A 3 x 3 game with win length 3 that player 1 won on an anti-diagonal with
\* the board not full, and the search's test says so.
C35_Witness ==
    /\ size = 3 /\ win_length = 3 /\ game_over /\ winner = 1
    /\ board[<<0, 2>>] = 1 /\ board[<<1, 1>>] = 1 /\ board[<<2, 0>>] = 1
    /\ \E m \in Cells(size) : board[m] = 0
    /\ _check_winner(board, size, win_length) = 1

\* The number of cells of the board that hold v.
CellsOf(v) == Cardinality({m \in Cells(size) : board[m] = v})

\* C36: player -1 made the first move and the sides alternate in
\* move_history, so the board holds as many -1 as 1 cells or one more; while
\* the game goes on the numbers are equal exactly when -1 is to move and
\* differ by one exactly when 1 is to move.
C36_SidesAlternate ==
    /\ \A i \in DOMAIN move_history :
           move_history[i][3] = IF i % 2 = 1 THEN -1 ELSE 1
    /\ CellsOf(-1) - CellsOf(1) \in {0, 1}
    /\ ~game_over =>
           /\ (CellsOf(-1) - CellsOf(1) = 0) <=> (current_player = -1)
           /\ (CellsOf(-1) - CellsOf(1) = 1) <=> (current_player = 1)

\* A 3 x 3 game in progress after three moves: two -1 cells, one 1 cell and
\* player 1 to move.
C36_Witness ==
    /\ size = 3 /\ ~game_over /\ Len(move_history) = 3
    /\ CellsOf(-1) = 2 /\ CellsOf(1) = 1 /\ current_player = 1

\* The t-th cell (from 0) of the run that starts at cell m and goes in
\* direction d.
RunCell(m, d, t) == <<m[1] + t * d[1], m[2] + t * d[2]>>

\* Player p holds the run of win_length cells from m in direction d: the run
\* is on the board and all its cells are p's. A line of at least win_length
\* cells contains such a run.
Holds(p, m, d) ==
    /\ InBounds(size, m[1] + (win_length - 1) * d[1], m[2] + (win_length - 1) * d[2])
    /\ \A t \in 0 .. win_length - 1 : board[RunCell(m, d, t)] = p

HasLine(p) == \E m \in Cells(size), d \in Directions : Holds(p, m, d)

\* The run from m in direction d passes through the last move of move_history.
ThroughLastMove(m, d) ==
    \E t \in 0 .. win_length - 1 :
        RunCell(m, d, t) = <<Last(move_history)[1], Last(move_history)[2]>>

\* C37: in a game whose win length is at most the size, at most one player
\* has a line of at least win_length cells, and a player that has one is the
\* recorded winner, with every such line passing through the last move of
\* move_history.
C37_OnlyTheWinnerHasALine ==
    win_length <= size =>
        /\ ~(HasLine(-1) /\ HasLine(1))
        /\ \A p \in Players : \A m \in Cells(size), d \in Directions :
               Holds(p, m, d) =>
                   /\ game_over /\ winner = p
                   /\ move_history # <<>>
                   /\ Last(move_history)[3] = p
                   /\ ThroughLastMove(m, d)

\* Player -1 completed two lines at once on a 3 x 3 board with win length 2;
\* both pass through the last move, and player 1 has none.
C37_Witness ==
    /\ size = 3 /\ win_length = 2 /\ game_over /\ winner = -1
    /\ ~HasLine(1)
    /\ \E m1, m2 \in Cells(size), d1, d2 \in Directions :
           /\ <<m1, d1>> # <<m2, d2>>
           /\ Holds(-1, m1, d1) /\ ThroughLastMove(m1, d1)
           /\ Holds(-1, m2, d2) /\ ThroughLastMove(m2, d2)

\* The sum of f[x] over the elements x of the finite set S.
RECURSIVE SetSum(_, _)
SetSum(S, f) ==
    IF S = {} THEN 0
    ELSE LET x == CHOOSE y \in S : TRUE IN f[x] + SetSum(S \ {x}, f)

\* The participants of the round robin have names that differ from each other.
DistinctNames == \A i, j \in DOMAIN rr.names : rr.names[i] = rr.names[j] => i = j

\* play_round_robin_tournament has left its loop.
RoundRobinOver == rr.pending = <<>> /\ rr.matchup = <<0, 0>>

\* The play_tournament calls in which participants i and j met.
MatchupsOf(i, j) ==
    {x \in DOMAIN rr.played : rr.played[x][1] \in {<<i, j>>, <<j, i>>}}

\* What the round robin is to hold after n participants played g games per
\* matchup.
RoundRobinTally(n, g) ==
    LET st == rr.rr_stats
        totals == st.player_totals
    IN /\ \A i, j \in 1 .. n :
              i < j => /\ Cardinality(MatchupsOf(i, j)) = 1
                       /\ \A x \in MatchupsOf(i, j) : rr.played[x][2] = g
                       /\ <<rr.names[i], rr.names[j]>> \in DOMAIN st.matchup_results
       /\ Len(rr.played) = (n * (n - 1)) \div 2
       /\ Cardinality(DOMAIN st.matchup_results) = (n * (n - 1)) \div 2
       /\ \A k \in DOMAIN st.matchup_results :
              LET m == st.matchup_results[k] IN m.p1_wins + m.p2_wins + m.draws = g
       /\ st.total_games = ((n * (n - 1)) \div 2) * g
       /\ n >= 2 => DOMAIN totals = {rr.names[i] : i \in 1 .. n}
       /\ \A x \in DOMAIN totals :
              /\ totals[x].wins + totals[x].losses + totals[x].draws = totals[x].games
              /\ totals[x].games = (n - 1) * g
       /\ SetSum(DOMAIN totals, [x \in DOMAIN totals |-> totals[x].wins])
              = SetSum(DOMAIN totals, [x \in DOMAIN totals |-> totals[x].losses])

\* C38: when a round robin of n participants with distinct names and g games
\* per matchup is over, every pair of participants has played exactly one
\* matchup, of g games; total_games is n * (n - 1) / 2 * g; every player's
\* wins, losses and draws add up to its games, which are (n - 1) * g; and the
\* wins of all players add up to as much as their losses.
C38_RoundRobinTally ==
    (DistinctNames /\ RoundRobinOver) =>
        RoundRobinTally(Len(rr.names), rr.games_per_matchup)

\* A round robin of three participants with two games per matchup is over:
\* six games were counted, four for every player, with a win and a draw among
\* them.
C38_Witness ==
    /\ DistinctNames /\ RoundRobinOver
    /\ Len(rr.names) = 3 /\ rr.games_per_matchup = 2
    /\ rr.rr_stats.total_games = 6
    /\ \A x \in 1 .. 3 : rr.rr_stats.player_totals[x].games = 4
    /\ \E x \in 1 .. 3 : rr.rr_stats.player_totals[x].wins > 0
    /\ \E x \in 1 .. 3 : rr.rr_stats.player_totals[x].draws > 0

====
